---- MODULE Spec2Model ----
(***************************************************************************)
(* Model of the prayer-catchability engine of catch-a-prayer               *)
(* (src/server/prayer_service.py, class PrayerTimeService).                *)
(*                                                                         *)
(* Representation.                                                         *)
(*   - An "HH:MM" string is the pair <<h, m>> of its two numeric fields;   *)
(*     fromisoformat turns it into a time of day, a number of minutes in   *)
(*     0..1439.  Python's None is the string "None" where the value is a   *)
(*     name, and the empty tuple where it is a tuple (a time string, the   *)
(*     coordinates, the client's time).                                    *)
(*   - An aware datetime is [abs |-> minutes since day 0, 00:00 UTC,       *)
(*     off |-> UTC offset of its tzinfo in minutes]; its wall clock is     *)
(*     abs + off.  All modelled instants are whole minutes.                *)
(*   - A timezone is named by its IANA name; on the modelled dates         *)
(*     (early September) each has one fixed UTC offset.                    *)
(*   - A result is a record; kind is "result" (a NextPrayer), "none"       *)
(*     (Python None) or "error" (the call raised exc).  The message text   *)
(*     of NextPrayer is derived from the other fields and is left out.     *)
(***************************************************************************)
EXTENDS Integers, Sequences, FiniteSets, TLC

VARIABLES
    prayers,              \* argument: the catalog, a sequence of Prayer
    user_travel_minutes,  \* argument
    client_current_time,  \* argument: <<wall clock, UTC offset>> of the ISO string, or <<>>
    mosque_coordinates,   \* argument: <<lat, lng>> in 1/10000 degree, or <<>>
    client_timezone,      \* argument: IANA name, or "None"
    tzfinder,             \* environment: "ok" or "ImportError" once the import of
                          \* timezonefinder was tried, "None" before
    server_now,           \* environment: <<the server clock as read>>, <<>> until read
    result,               \* what the call returned or raised
    pc,                   \* "call" before the call, "done" after it
    time_str,             \* a scraped clock-time text, a sequence of characters
    parsed,               \* what PrayerTimeService._parse_time made of time_str
    normalized,           \* what MosqueScraper._normalize_time made of time_str
    clock,                \* datetime.now() of the server, in hours since 00:00 of day 0
    entry,                \* the object whose catalog entry point is called
    task,                 \* the call of that entry point: its position, its
                          \* Mosque argument, its cache key, what the site did, its result
    cache,                \* self.cache of that object: a set of [key, data, cached_time]
    threads,              \* the get_next_prayer calls running on one service instance
    catalog_list,         \* the list object those calls were handed as prayers
    asked_prayer,         \* argument current_prayer of a direct
                          \* _get_next_prayer_adhan_time call
    next_prayer_adhan,    \* what that call returned
    mosque_timezone,      \* what a direct _get_mosque_timezone call returned
    page,                 \* the page a site answered with: its tables and text lines
    extracted,            \* what the scraping collaborator made of the page
    request,              \* the LocationRequest of a /api/mosques/nearby call
    mosques,              \* the list maps_service.find_nearby_mosques returned
    handled,              \* how many mosques the loop of the handler has passed
    response,             \* what the handler answered
    site,                 \* the pages of a mosque's website, by URL
    stack,                \* the _scrape_page calls in progress, innermost last
    attempts,             \* how often _scrape_page requested each URL
    scrape                \* where scrape_mosque_prayers stands

\* the variables of one get_next_prayer call
classifierVars ==
    <<prayers, user_travel_minutes, client_current_time, mosque_coordinates,
      client_timezone, tzfinder, server_now, result, pc>>

\* the variables of the time normalizers
normalizerVars == <<time_str, parsed, normalized>>

\* the variables of a service or scraper instance and the calls made on it
serviceVars == <<clock, entry, task, cache, threads, catalog_list>>

\* the variables of a direct call of a helper of the classifier
helperVars == <<asked_prayer, next_prayer_adhan, mosque_timezone>>

\* the variables of one page extraction
pageVars == <<page, extracted>>

\* the variables of one /api/mosques/nearby request
requestVars == <<request, mosques, handled, response>>

\* the variables of one MosqueScraper.scrape_mosque_prayers call
fetchVars == <<site, stack, attempts, scrape>>

vars == <<classifierVars, normalizerVars, serviceVars, helperVars, pageVars,
          requestVars, fetchVars>>

None == "None"

Absent == <<>>

\* minutes in a day: time() and date() split a wall clock here
DayMinutes == 24 * 60

(***************************************************************************)
(* Bounds of the model.                                                    *)
(***************************************************************************)
\* short trips are 0, 10, ..., 10 * MaxTravelSteps minutes
MaxTravelSteps == 3

\* the client's clock reads 00:00, 00:05, ..., 5 * WallClockSteps minutes
WallClockSteps == 287

\* the server's clock reads 00:00, 00:30, ..., 30 * ServerClockSteps minutes
ServerClockSteps == 47

(***************************************************************************)
(* models.py                                                               *)
(***************************************************************************)
FAJR == "fajr"
DHUHR == "dhuhr"
ASR == "asr"
MAGHRIB == "maghrib"
ISHA == "isha"
JUMAA == "jumaa"

PrayerName == {FAJR, DHUHR, ASR, MAGHRIB, ISHA, JUMAA}

CAN_CATCH_WITH_IMAM == "can_catch_with_imam"
CAN_CATCH_AFTER_IMAM == "can_catch_after_imam"
CAN_CATCH_DELAYED == "can_catch_delayed"
CANNOT_CATCH == "cannot_catch"
MISSED == "missed"

PrayerStatus == {CAN_CATCH_WITH_IMAM, CAN_CATCH_AFTER_IMAM, CAN_CATCH_DELAYED,
                 CANNOT_CATCH, MISSED}

Prayer(name, adhan, iqama) ==
    [prayer_name |-> name, adhan_time |-> adhan, iqama_time |-> iqama]

\* NextPrayer(...): is_delayed defaults to False
NextPrayer(prayer, status, can_catch, travel, remaining, arrival, prayer_time, is_delayed) ==
    [kind |-> "result", exc |-> None, prayer |-> prayer, status |-> status,
     can_catch |-> can_catch, travel_time_minutes |-> travel,
     time_remaining_minutes |-> remaining, arrival_time |-> arrival,
     prayer_time |-> prayer_time, is_delayed |-> is_delayed]

NoResult ==
    [kind |-> "none", exc |-> None, prayer |-> None, status |-> None,
     can_catch |-> FALSE, travel_time_minutes |-> 0,
     time_remaining_minutes |-> 0, arrival_time |-> [abs |-> 0, off |-> 0],
     prayer_time |-> Absent, is_delayed |-> FALSE]

Raised(e) == [NoResult EXCEPT !.kind = "error", !.exc = e]

(***************************************************************************)
(* datetime                                                                *)
(***************************************************************************)
\* time.fromisoformat("HH:MM"): the time of day in minutes; a field out of
\* range raises ValueError
ValidTime(s) == Len(s) = 2 /\ s[1] \in 0..23 /\ s[2] \in 0..59

fromisoformat(s) == s[1] * 60 + s[2]

\* dt.time() and dt.date() of an aware datetime: its wall clock in its own zone
TimeOf(dt) == (dt.abs + dt.off) % DayMinutes

DateOf(dt) == (dt.abs + dt.off) \div DayMinutes

\* datetime.combine(date, t).replace(tzinfo = tz)
Combine(date, t, off) == [abs |-> date * DayMinutes + t - off, off |-> off]

\* dt + timedelta(minutes = n)
PlusMinutes(dt, n) == [abs |-> dt.abs + n, off |-> dt.off]

\* mutant: replace(tzinfo = tz) in place of astimezone(tz), which keeps the
\* wall clock and moves the instant
AsTimezone_replace(dt, off) == [abs |-> dt.abs + dt.off - off, off |-> off]

\* dt.astimezone(tz): the same instant, the other zone's wall clock
AsTimezone(dt, off) == [abs |-> dt.abs, off |-> off]

\* (a - b).total_seconds() / 60
MinutesBetween(a, b) == a.abs - b.abs

Max(a, b) == IF a >= b THEN a ELSE b

(***************************************************************************)
(* Timezones (pytz, timezonefinder)                                        *)
(***************************************************************************)
LosAngeles == "America/Los_Angeles"
Denver == "America/Denver"
NewYork == "America/New_York"

\* pytz.timezone(name) succeeds for these names and raises for any other
KnownZones == {LosAngeles, Denver, NewYork, "UTC"}

\* UTC offset in minutes on the modelled dates (daylight time in the U.S.)
UtcOffset(zone) ==
    CASE zone = LosAngeles -> -(7 * 60)
      [] zone = Denver -> -(6 * 60)
      [] zone = NewYork -> -(4 * 60)
      [] OTHER -> 0

\* coordinates in 1/10000 degree: San Francisco, Denver, New York, the
\* north-east corner of the Bay Area rule (38.0 N, 121.0 W) and the point
\* 0.0001 degree north of it
sf_coordinates == <<377749, -1224194>>
denver_coordinates == <<397392, -1049903>>
new_york_coordinates == <<407128, -740060>>
bay_area_corner == <<380000, -1210000>>
north_of_bay_area_corner == <<380001, -1210000>>

\* TimezoneFinder().timezone_at(lat, lng) at the modelled coordinates: the
\* zone whose polygon holds the point, None where no polygon does
timezone_at(coords) ==
    CASE coords \in {sf_coordinates, bay_area_corner, north_of_bay_area_corner}
             -> LosAngeles
      [] coords = denver_coordinates -> Denver
      [] coords = new_york_coordinates -> NewYork
      [] OTHER -> None

\* mutant: the current time is always the server clock
parse_user_current_time_server_clock(cct, ctz, now) == [abs |-> now, off |-> 0]

\* _parse_user_current_time: the parsed client time when it carries an
\* offset; a naive client time localized in client_timezone; else the
\* server clock in UTC
parse_user_current_time(cct, ctz, now) ==
    IF Len(cct) = 2
    THEN [abs |-> cct[1] - cct[2], off |-> cct[2]]
    ELSE IF Len(cct) = 1 /\ ctz # None /\ ctz \in KnownZones
    THEN [abs |-> cct[1] - UtcOffset(ctz), off |-> UtcOffset(ctz)]
    ELSE [abs |-> now, off |-> 0]

\* mutant: the fallback zone is tried before the hardcoded boxes
get_mosque_timezone_fallback_first(coords, fallback_timezone, tf) ==
    IF coords # Absent /\ tf /\ timezone_at(coords) # None
    THEN timezone_at(coords)
    ELSE IF fallback_timezone # None /\ fallback_timezone \in KnownZones
    THEN fallback_timezone
    ELSE IF coords # Absent
            /\ 370000 <= coords[1] /\ coords[1] <= 380000
            /\ -1230000 <= coords[2] /\ coords[2] <= -1210000
    THEN LosAngeles
    ELSE IF coords # Absent
            /\ 390000 <= coords[1] /\ coords[1] <= 400000
            /\ -1060000 <= coords[2] /\ coords[2] <= -1040000
    THEN Denver
    ELSE None

\* _get_mosque_timezone: geographic lookup, then the hardcoded boxes, then
\* the fallback zone; None when nothing resolves
get_mosque_timezone(coords, fallback_timezone, tf) ==
    IF coords # Absent /\ tf /\ timezone_at(coords) # None
    THEN timezone_at(coords)
    ELSE IF coords # Absent
            /\ 370000 <= coords[1] /\ coords[1] <= 380000
            /\ -1230000 <= coords[2] /\ coords[2] <= -1210000
    THEN LosAngeles
    ELSE IF coords # Absent
            /\ 390000 <= coords[1] /\ coords[1] <= 400000
            /\ -1060000 <= coords[2] /\ coords[2] <= -1040000
    THEN Denver
    ELSE IF fallback_timezone # None /\ fallback_timezone \in KnownZones
    THEN fallback_timezone
    ELSE None

(***************************************************************************)
(* The classifier                                                          *)
(***************************************************************************)
congregation_window_minutes == 15

\* timedelta(minutes = 90) from Fajr to the estimated sunrise
fajr_to_sunrise_minutes == 90

\* prayer.iqama_time or prayer.adhan_time
IqamaOrAdhan(p) == IF p.iqama_time # Absent THEN p.iqama_time ELSE p.adhan_time

\* sorted(prayers, key = ...): a stable sort by the Iqama-or-Adhan time
RECURSIVE InsertSorted(_, _)
InsertSorted(p, s) ==
    IF s = <<>> THEN <<p>>
    ELSE IF fromisoformat(IqamaOrAdhan(Head(s))) <= fromisoformat(IqamaOrAdhan(p))
         THEN <<Head(s)>> \o InsertSorted(p, Tail(s))
         ELSE <<p>> \o s

\* mutant: the catalog is used in the caller's order
SortedByTime_unsorted(s) == s

RECURSIVE SortedByTime(_)
SortedByTime(s) ==
    IF s = <<>> THEN <<>>
    ELSE InsertSorted(s[Len(s)], SortedByTime(SubSeq(s, 1, Len(s) - 1)))

\* next((p for p in prayers if p.prayer_name == name), None)
HasNamed(ps, name) == \E i \in 1..Len(ps) : ps[i].prayer_name = name

FirstNamed(ps, name) ==
    ps[CHOOSE i \in 1..Len(ps) :
           /\ ps[i].prayer_name = name
           /\ \A j \in 1..(i - 1) : ps[j].prayer_name # name]

\* mutant: the congregation window lasts until the estimated sunrise
iqama_end_time_sunrise(p) ==
    (fromisoformat(IqamaOrAdhan(p)) + fajr_to_sunrise_minutes) % DayMinutes

\* iqama_end_time of _find_current_prayer_in_progress: (combine(date, iqama)
\* + 15 min).time(), a time of day, so it wraps at midnight
iqama_end_time(p) ==
    (fromisoformat(IqamaOrAdhan(p)) + congregation_window_minutes) % DayMinutes

\* the test of line 358: iqama_time <= current_time <= iqama_end_time
InProgress(p, cur) ==
    /\ fromisoformat(IqamaOrAdhan(p)) <= TimeOf(cur)
    /\ TimeOf(cur) <= iqama_end_time(p)

\* mutant: a congregation that ends before the arrival is reported MISSED
find_current_prayer_in_progress_missed(ps, cur, arrival, travel) ==
    IF \E i \in 1..Len(ps) : InProgress(ps[i], cur)
    THEN LET i == CHOOSE k \in 1..Len(ps) :
                      /\ InProgress(ps[k], cur)
                      /\ \A j \in 1..(k - 1) : ~InProgress(ps[j], cur)
             prayer == ps[i]
             iqama_time == fromisoformat(IqamaOrAdhan(prayer))
             end == iqama_end_time(prayer)
             arrival_time == TimeOf(arrival)
             can_catch == arrival_time <= end
             status == IF can_catch
                       THEN (IF arrival_time > iqama_time
                             THEN CAN_CATCH_AFTER_IMAM ELSE CAN_CATCH_WITH_IMAM)
                       ELSE MISSED
         IN  NextPrayer(prayer.prayer_name, status, can_catch, travel,
                        MinutesBetween(Combine(DateOf(cur), end, cur.off), cur),
                        arrival, IqamaOrAdhan(prayer), FALSE)
    ELSE NoResult

find_current_prayer_in_progress(ps, cur, arrival, travel) ==
    IF \E i \in 1..Len(ps) : InProgress(ps[i], cur)
    THEN LET i == CHOOSE k \in 1..Len(ps) :
                      /\ InProgress(ps[k], cur)
                      /\ \A j \in 1..(k - 1) : ~InProgress(ps[j], cur)
             prayer == ps[i]
             iqama_time == fromisoformat(IqamaOrAdhan(prayer))
             end == iqama_end_time(prayer)
             arrival_time == TimeOf(arrival)
             can_catch == arrival_time <= end
             status == IF can_catch
                       THEN (IF arrival_time > iqama_time
                             THEN CAN_CATCH_AFTER_IMAM ELSE CAN_CATCH_WITH_IMAM)
                       ELSE CANNOT_CATCH
             minutes_remaining ==
                 MinutesBetween(Combine(DateOf(cur), end, cur.off), cur)
         IN  NextPrayer(prayer.prayer_name, status, can_catch, travel,
                        minutes_remaining, arrival, IqamaOrAdhan(prayer), FALSE)
    ELSE NoResult

\* _get_next_prayer_adhan_time: the Adhan time of the next prayer in
\* prayer_order when the catalog has it; else Fajr + 90 min for Fajr; else
\* None, written -1
prayer_order == <<FAJR, DHUHR, ASR, MAGHRIB, ISHA>>

get_next_prayer_adhan_time(current_prayer, ps) ==
    LET idx == {i \in 1..Len(prayer_order) : prayer_order[i] = current_prayer.prayer_name}
        current_index == IF idx = {} THEN 0 ELSE CHOOSE i \in idx : TRUE
        has_next == /\ current_index # 0
                    /\ current_index < Len(prayer_order)
                    /\ HasNamed(ps, prayer_order[current_index + 1])
    IN  IF has_next
        THEN fromisoformat(FirstNamed(ps, prayer_order[current_index + 1]).adhan_time)
        ELSE IF current_prayer.prayer_name = FAJR
        THEN (fromisoformat(current_prayer.adhan_time) + fajr_to_sunrise_minutes) % DayMinutes
        ELSE -1

\* _evaluate_prayer_catchability.  Its last branch reads the name prayers,
\* which is neither a parameter, a local nor a module global of
\* prayer_service.py: evaluating it raises NameError.
evaluate_prayer_catchability(prayer, cur, arrival, travel) ==
    LET iqama_time == fromisoformat(IqamaOrAdhan(prayer))
        iqama_datetime == Combine(DateOf(cur), iqama_time, cur.off)
        arrival_time == TimeOf(arrival)
        congregation_end_time ==
            TimeOf(PlusMinutes(iqama_datetime, congregation_window_minutes))
        time_remaining == MinutesBetween(iqama_datetime, cur)
    IN  IF ~ValidTime(prayer.adhan_time)
        THEN Raised("ValueError")
        ELSE IF arrival_time <= iqama_time
        THEN NextPrayer(prayer.prayer_name, CAN_CATCH_WITH_IMAM, TRUE, travel,
                        Max(0, time_remaining), arrival, IqamaOrAdhan(prayer), FALSE)
        ELSE IF arrival_time <= congregation_end_time
        THEN NextPrayer(prayer.prayer_name, CAN_CATCH_AFTER_IMAM, TRUE, travel,
                        Max(0, time_remaining), arrival, IqamaOrAdhan(prayer), FALSE)
        ELSE Raised("NameError")

\* mutant: a prayer without an Iqama time is never upcoming
Upcoming_needs_iqama(p, cur) ==
    p.iqama_time # Absent /\ fromisoformat(p.iqama_time) > TimeOf(cur)

\* the test of line 401: iqama_time > current_time
Upcoming(p, cur) == fromisoformat(IqamaOrAdhan(p)) > TimeOf(cur)

\* mutant: tomorrow's Fajr is checked against the arrival time
find_next_upcoming_prayer_checks_travel(ps, cur, arrival, travel) ==
    IF \E i \in 1..Len(ps) : Upcoming(ps[i], cur)
    THEN LET i == CHOOSE k \in 1..Len(ps) :
                      /\ Upcoming(ps[k], cur)
                      /\ \A j \in 1..(k - 1) : ~Upcoming(ps[j], cur)
         IN  evaluate_prayer_catchability(ps[i], cur, arrival, travel)
    ELSE IF HasNamed(ps, FAJR)
         THEN LET fajr_prayer == FirstNamed(ps, FAJR)
                  fajr_time == fromisoformat(IqamaOrAdhan(fajr_prayer))
                  can_catch == TimeOf(arrival) <= fajr_time
              IN  NextPrayer(fajr_prayer.prayer_name,
                             IF can_catch THEN CAN_CATCH_WITH_IMAM ELSE CANNOT_CATCH,
                             can_catch, travel,
                             MinutesBetween(Combine(DateOf(cur) + 1, fajr_time, cur.off), cur)
                                 - travel,
                             arrival, IqamaOrAdhan(fajr_prayer), FALSE)
         ELSE NoResult

find_next_upcoming_prayer(ps, cur, arrival, travel) ==
    IF \E i \in 1..Len(ps) : Upcoming(ps[i], cur)
    THEN LET i == CHOOSE k \in 1..Len(ps) :
                      /\ Upcoming(ps[k], cur)
                      /\ \A j \in 1..(k - 1) : ~Upcoming(ps[j], cur)
         IN  evaluate_prayer_catchability(ps[i], cur, arrival, travel)
    ELSE IF HasNamed(ps, FAJR)
             THEN LET fajr_prayer == FirstNamed(ps, FAJR)
                      tomorrow_fajr_dt ==
                          Combine(DateOf(cur) + 1,
                                  fromisoformat(IqamaOrAdhan(fajr_prayer)), cur.off)
                      time_until_fajr == MinutesBetween(tomorrow_fajr_dt, cur)
                  IN  NextPrayer(fajr_prayer.prayer_name, CAN_CATCH_WITH_IMAM, TRUE,
                                 travel, time_until_fajr - travel, arrival,
                                 IqamaOrAdhan(fajr_prayer), FALSE)
         ELSE NoResult

find_makeup_prayer_opportunity(ps, cur, arrival, travel) ==
    IF HasNamed(ps, FAJR) /\ HasNamed(ps, DHUHR)
        THEN LET fajr_prayer == FirstNamed(ps, FAJR)
                 dhuhr_prayer == FirstNamed(ps, DHUHR)
                 fajr_adhan == fromisoformat(fajr_prayer.adhan_time)
                 dhuhr_adhan == fromisoformat(dhuhr_prayer.adhan_time)
                 estimated_sunrise == (fajr_adhan + fajr_to_sunrise_minutes) % DayMinutes
                 current_time == TimeOf(cur)
             IN  IF estimated_sunrise < current_time /\ current_time < dhuhr_adhan
                 \* line 555 subtracts an aware datetime from a naive one
                 THEN Raised("TypeError")
                 ELSE NoResult
        ELSE NoResult

\* mutant: the make-up rule is consulted before the upcoming-prayer rule and
\* computes its remaining time between two aware datetimes
find_best_prayer_opportunity_makeup_first(ps, cur, arrival, travel) ==
    LET current_prayer == find_current_prayer_in_progress(ps, cur, arrival, travel)
        made_up ==
            /\ HasNamed(ps, FAJR)
            /\ HasNamed(ps, DHUHR)
            /\ (fromisoformat(FirstNamed(ps, FAJR).adhan_time) + fajr_to_sunrise_minutes)
                   % DayMinutes < TimeOf(cur)
            /\ TimeOf(cur) < fromisoformat(FirstNamed(ps, DHUHR).adhan_time)
        dhuhr_adhan == fromisoformat(FirstNamed(ps, DHUHR).adhan_time)
        can_catch == TimeOf(arrival) < dhuhr_adhan
    IN  IF current_prayer.kind # "none" THEN current_prayer
        ELSE IF made_up
        THEN NextPrayer(FAJR, IF can_catch THEN CAN_CATCH_DELAYED ELSE CANNOT_CATCH,
                        can_catch, travel, dhuhr_adhan - TimeOf(cur), arrival,
                        FirstNamed(ps, FAJR).adhan_time, TRUE)
        ELSE find_next_upcoming_prayer(ps, cur, arrival, travel)

\* _find_best_prayer_opportunity: in progress, then upcoming, then make-up
find_best_prayer_opportunity(ps, cur, arrival, travel) ==
    LET current_prayer == find_current_prayer_in_progress(ps, cur, arrival, travel)
        upcoming_prayer == find_next_upcoming_prayer(ps, cur, arrival, travel)
    IN  IF current_prayer.kind # "none" THEN current_prayer
        ELSE IF upcoming_prayer.kind # "none" THEN upcoming_prayer
        ELSE find_makeup_prayer_opportunity(ps, cur, arrival, travel)

\* mutant: an unresolved mosque timezone becomes UTC
get_next_prayer_utc_fallback(ps, travel, cct, coords, ctz, tf, now) ==
    IF ps = <<>> THEN NoResult
    ELSE LET user_current_dt == parse_user_current_time(cct, ctz, now)
             zone == get_mosque_timezone(coords, ctz, tf)
             mosque_off == IF zone # None THEN UtcOffset(zone) ELSE 0
             arrival_time_user_tz == PlusMinutes(user_current_dt, travel)
             arrival_time_mosque_tz == AsTimezone(arrival_time_user_tz, mosque_off)
             user_current_mosque_tz == AsTimezone(user_current_dt, mosque_off)
         IN  IF \E i \in 1..Len(ps) : ~ValidTime(IqamaOrAdhan(ps[i]))
             THEN Raised("ValueError")
             ELSE find_best_prayer_opportunity(SortedByTime(ps), user_current_mosque_tz,
                                               arrival_time_mosque_tz, travel)

\* mutant: an empty catalog is replaced by the default prayers
get_next_prayer_defaults_when_empty(ps, travel, cct, coords, ctz, tf, now) ==
    LET catalog == IF ps = <<>>
                   THEN <<Prayer(FAJR, <<5, 50>>, <<6, 0>>),
                          Prayer(DHUHR, <<12, 45>>, <<13, 0>>)>>
                   ELSE ps
        user_current_dt == parse_user_current_time(cct, ctz, now)
        zone == get_mosque_timezone(coords, ctz, tf)
        mosque_off == IF zone # None THEN UtcOffset(zone) ELSE user_current_dt.off
        arrival_time_user_tz == PlusMinutes(user_current_dt, travel)
        arrival_time_mosque_tz == AsTimezone(arrival_time_user_tz, mosque_off)
        user_current_mosque_tz == AsTimezone(user_current_dt, mosque_off)
    IN  IF \E i \in 1..Len(catalog) : ~ValidTime(IqamaOrAdhan(catalog[i]))
        THEN Raised("ValueError")
        ELSE find_best_prayer_opportunity(SortedByTime(catalog), user_current_mosque_tz,
                                          arrival_time_mosque_tz, travel)

\* get_next_prayer
get_next_prayer(ps, travel, cct, coords, ctz, tf, now) ==
    IF ps = <<>> THEN NoResult
    ELSE LET user_current_dt == parse_user_current_time(cct, ctz, now)
             zone == get_mosque_timezone(coords, ctz, tf)
             mosque_off == IF zone # None THEN UtcOffset(zone) ELSE user_current_dt.off
             arrival_time_user_tz == PlusMinutes(user_current_dt, travel)
             arrival_time_mosque_tz == AsTimezone(arrival_time_user_tz, mosque_off)
             user_current_mosque_tz == AsTimezone(user_current_dt, mosque_off)
         IN  IF \E i \in 1..Len(ps) : ~ValidTime(IqamaOrAdhan(ps[i]))
             THEN Raised("ValueError")
             ELSE find_best_prayer_opportunity(SortedByTime(ps), user_current_mosque_tz,
                                               arrival_time_mosque_tz, travel)

(***************************************************************************)
(* The calls the model makes                                               *)
(***************************************************************************)
standard_prayers ==
    <<Prayer(FAJR, <<5, 50>>, <<6, 0>>), Prayer(DHUHR, <<12, 45>>, <<13, 0>>),
      Prayer(ASR, <<16, 15>>, <<16, 30>>), Prayer(MAGHRIB, <<19, 10>>, <<19, 20>>),
      Prayer(ISHA, <<20, 30>>, <<20, 45>>)>>

\* a catalog takes one option for each part of the day; <<>> leaves Fajr
\* out.  The late evening is a summer night at a high latitude, its Isha
\* without an Iqama time.
FajrOptions == {<<>>, <<standard_prayers[1]>>}
DhuhrOptions == {<<standard_prayers[2]>>, <<Prayer(DHUHR, <<14, 10>>, <<14, 15>>)>>}
AsrOptions == {<<standard_prayers[3]>>}
EveningOptions ==
    {<<standard_prayers[4], standard_prayers[5]>>,
     <<Prayer(MAGHRIB, <<23, 30>>, <<23, 45>>), Prayer(ISHA, <<23, 55>>, Absent)>>}

Reverse(s) == [i \in 1..Len(s) |-> s[Len(s) + 1 - i]]

\* _parse_time checks no range, so a scraped catalog may hold a time no
\* clock shows: Asr with Adhan "25:00", without and with an Iqama time
MalformedCatalogs ==
    {[standard_prayers EXCEPT ![3] = Prayer(ASR, <<25, 0>>, Absent)],
     [standard_prayers EXCEPT ![3] = Prayer(ASR, <<25, 0>>, <<16, 30>>)]}

\* a Friday: the Jumaa entry shares its Iqama time with Dhuhr, and the
\* scraper listed it after the five daily prayers or before them
friday_jumaa == Prayer(JUMAA, <<12, 45>>, <<13, 0>>)

FridayCatalogs == {standard_prayers \o <<friday_jumaa>>, <<friday_jumaa>> \o standard_prayers}

\* the caller's list is in cycle order; the standard days also come
\* unsorted, in the reverse order; a list may be malformed, or empty
Catalogs ==
    {f \o d \o a \o e : f \in FajrOptions, d \in DhuhrOptions, a \in AsrOptions,
                        e \in EveningOptions}
    \cup {Reverse(f \o SubSeq(standard_prayers, 2, 5)) : f \in FajrOptions}
    \cup MalformedCatalogs
    \cup FridayCatalogs
    \cup {<<>>}

\* short trips, and one long enough to end on the next day
TravelChoices == {10 * k : k \in 0..MaxTravelSteps} \cup {400}

\* wall-clock instants from 00:00 of day 1 on, every 5 minutes
WallClocks == {DayMinutes + 5 * k : k \in 0..WallClockSteps}

\* the client sends its Pacific wall clock with the offset, or nothing
ClientTimes == {<<w, UtcOffset(LosAngeles)>> : w \in WallClocks} \cup {Absent}

\* what the server clock may read, in UTC
ServerClocks == {DayMinutes + 30 * k : k \in 0..ServerClockSteps}

\* no time text is being normalized
NormalizerIdle ==
    /\ time_str = <<>>
    /\ parsed = [state |-> "idle", text |-> <<>>]
    /\ normalized = [state |-> "idle", text |-> <<>>]

\* a call of a catalog entry point: idle, fetching (suspended in its await)
\* or done
IdleTask ==
    [pc |-> "idle", mosque |-> [place_id |-> None, website |-> None],
     cache_key |-> <<>>, outcome |-> None,
     result |-> [kind |-> "pending", value |-> <<>>, exc |-> None]]

\* what a helper returns: nothing yet, or a value
Pending == [state |-> "pending", value |-> None]

Returns(v) == [state |-> "returned", value |-> v]

\* no helper is called directly
HelperIdle ==
    /\ asked_prayer = Prayer(None, Absent, Absent)
    /\ next_prayer_adhan = Pending
    /\ mosque_timezone = Pending

\* no page is being extracted
PageIdle ==
    /\ page = [tables |-> <<>>, lines |-> <<>>, text_above |-> FALSE]
    /\ extracted = Pending

\* no /api/mosques/nearby request is being answered
RequestIdle ==
    /\ request = [client_current_time |-> Absent]
    /\ mosques = <<>>
    /\ handled = 0
    /\ response = [kind |-> "idle", status |-> 0, mosques |-> <<>>]

\* no website is being scraped
FetchIdle ==
    /\ site = <<>>
    /\ stack = <<>>
    /\ attempts = <<>>
    /\ scrape = [pc |-> "idle", prayer_pages |-> <<>>, index |-> 0,
                 find_fetches |-> 0, found |-> FALSE]

\* no instance is serving calls
ServiceIdle ==
    /\ clock = 0
    /\ entry = None
    /\ task = IdleTask
    /\ cache = {}
    /\ threads = <<>>
    /\ catalog_list = <<>>

Init ==
    /\ NormalizerIdle
    /\ ServiceIdle
    /\ HelperIdle
    /\ PageIdle
    /\ RequestIdle
    /\ FetchIdle
    /\ prayers \in Catalogs
    /\ user_travel_minutes \in TravelChoices
    /\ client_current_time \in ClientTimes
    /\ mosque_coordinates \in {Absent, denver_coordinates}
    /\ client_timezone \in {LosAngeles, "Invalid/Timezone"}
    /\ tzfinder = None
    /\ server_now = Absent
    /\ result = NoResult
    /\ pc = "call"

\* line 264 reads the server clock only when the client sent no usable time
ReadsClock == prayers # <<>> /\ Len(client_current_time) # 2

\* line 272 imports timezonefinder only when coordinates were given
TriesTzFinder == prayers # <<>> /\ mosque_coordinates # Absent

\* one call of get_next_prayer
Call ==
    /\ pc = "call"
    /\ \E now \in (IF ReadsClock THEN ServerClocks ELSE {0}),
          tf \in (IF TriesTzFinder THEN BOOLEAN ELSE {FALSE}) :
          /\ result' = get_next_prayer(prayers, user_travel_minutes,
                                       client_current_time, mosque_coordinates,
                                       client_timezone, tf, now)
          /\ server_now' = IF ReadsClock THEN <<now>> ELSE Absent
          /\ tzfinder' = IF TriesTzFinder
                         THEN (IF tf THEN "ok" ELSE "ImportError") ELSE None
    /\ pc' = "done"
    /\ UNCHANGED <<prayers, user_travel_minutes, client_current_time,
                   mosque_coordinates, client_timezone>>
    /\ UNCHANGED <<normalizerVars, serviceVars, helperVars, pageVars, requestVars, fetchVars>>

Next == Call

Spec == Init /\ [][Next]_vars

(***************************************************************************)
(* What the claims speak of, read off a finished call                      *)
(***************************************************************************)
\* the traveler's current instant
UserNow ==
    parse_user_current_time(client_current_time, client_timezone,
                            IF server_now = Absent THEN 0 ELSE server_now[1])

\* UTC offset of the zone the catalog is compared in
MosqueOffset ==
    LET zone == get_mosque_timezone(mosque_coordinates, client_timezone, tzfinder = "ok")
    IN  IF zone # None THEN UtcOffset(zone) ELSE UserNow.off

\* mosque-local wall clocks, in minutes since 00:00 of day 0
NowLocal == UserNow.abs + MosqueOffset

ArrivalLocal == NowLocal + user_travel_minutes

\* mosque-local times of day
CurrentTime == NowLocal % DayMinutes

ArrivalTime == ArrivalLocal % DayMinutes

\* arrival in minutes since 00:00 of the current mosque-local day; it passes
\* 24:00 when the trip ends on a later day
ArrivalToday == ArrivalLocal - (NowLocal \div DayMinutes) * DayMinutes

\* a prayer's Iqama-or-Adhan time T
EffectiveTime(p) == fromisoformat(IqamaOrAdhan(p))

Catalog == {prayers[i] : i \in 1..Len(prayers)}

\* the current time lies in the congregation window [T, T + 15 min] of p
InWindow(p) ==
    /\ EffectiveTime(p) <= CurrentTime
    /\ CurrentTime <= EffectiveTime(p) + congregation_window_minutes

WindowPrayers == {p \in Catalog : InWindow(p)}

UpcomingPrayers == {p \in Catalog : EffectiveTime(p) > CurrentTime}

\* the members of a set of prayers with the earliest time
Earliest(S) == {p \in S : \A q \in S : EffectiveTime(p) <= EffectiveTime(q)}

Returned == pc = "done" /\ result.kind = "result"

\* the catalog's prayer that follows p in the cycle Fajr, Dhuhr, Asr, Maghrib, Isha
CycleIndex(p) == CHOOSE i \in 1..5 : prayer_order[i] = p.prayer_name

HasNextInCycle(p) ==
    /\ p.prayer_name \in {FAJR, DHUHR, ASR, MAGHRIB}
    /\ HasNamed(prayers, prayer_order[CycleIndex(p) + 1])

NextInCycle(p) == FirstNamed(prayers, prayer_order[CycleIndex(p) + 1])

(***************************************************************************)
(* C1: get_next_prayer is total on valid input: for a non-empty catalog of *)
(* well-formed times that contains Fajr, any current instant (supplied or  *)
(* taken from the server clock) and any travel_minutes >= 0 it returns a   *)
(* NextPrayer; it neither raises nor returns None.                         *)
(***************************************************************************)
C1_TotalOnValidInput ==
    (/\ pc = "done"
     /\ prayers # <<>>
     /\ \A p \in Catalog : ValidTime(p.adhan_time) /\ ValidTime(IqamaOrAdhan(p))
     /\ HasNamed(prayers, FAJR)
     /\ user_travel_minutes >= 0)
    => result.kind = "result"

(***************************************************************************)
(* C2: Rule 3 catchability: for the selected upcoming prayer with time T,  *)
(* the status is CAN_CATCH_WITH_IMAM exactly when the mosque-local arrival *)
(* time is <= T; otherwise CAN_CATCH_AFTER_IMAM (can_catch true) exactly   *)
(* when arrival is before the Adhan of the next prayer in cycle order;     *)
(* otherwise CANNOT_CATCH with can_catch false.  In all three cases a      *)
(* result is returned.                                                     *)
(***************************************************************************)
C2_Rule3Catchability ==
    (/\ pc = "done"
     /\ WindowPrayers = {}
     /\ UpcomingPrayers # {}
     /\ \A p \in Earliest(UpcomingPrayers) : HasNextInCycle(p))
    => \E p \in Earliest(UpcomingPrayers) :
          LET boundary == fromisoformat(NextInCycle(p).adhan_time)
              status == IF ArrivalTime <= EffectiveTime(p) THEN CAN_CATCH_WITH_IMAM
                        ELSE IF ArrivalTime < boundary THEN CAN_CATCH_AFTER_IMAM
                        ELSE CANNOT_CATCH
          IN  /\ result.kind = "result"
              /\ result.prayer = p.prayer_name
              /\ result.status = status
              /\ result.can_catch = (status # CANNOT_CATCH)

(***************************************************************************)
(* C3: Rule 1: for a prayer with time T anywhere in 00:00-23:59, whenever  *)
(* the mosque-local current time lies in [T, T + 15 min] the call returns  *)
(* the chronologically first such prayer with can_catch = (arrival <=      *)
(* T + 15 min) and status CAN_CATCH_WITH_IMAM if arrival <= T,             *)
(* CAN_CATCH_AFTER_IMAM if T < arrival <= T + 15 min, CANNOT_CATCH if      *)
(* arrival is after the window end.                                        *)
(***************************************************************************)
C3_Rule1InProgress ==
    (pc = "done" /\ WindowPrayers # {})
    => \E p \in Earliest(WindowPrayers) :
          LET window_end == EffectiveTime(p) + congregation_window_minutes
          IN  /\ result.kind = "result"
              /\ result.prayer = p.prayer_name
              /\ result.can_catch = (ArrivalToday <= window_end)
              /\ result.status =
                    (IF ArrivalToday <= EffectiveTime(p) THEN CAN_CATCH_WITH_IMAM
                     ELSE IF ArrivalToday <= window_end THEN CAN_CATCH_AFTER_IMAM
                     ELSE CANNOT_CATCH)

Fajr == FirstNamed(prayers, FAJR)

Dhuhr == FirstNamed(prayers, DHUHR)

C5_DhuhrAfterFajrWindow ==
    (/\ pc = "done"
     /\ HasNamed(prayers, FAJR)
     /\ HasNamed(prayers, DHUHR)
     /\ EffectiveTime(Fajr) + congregation_window_minutes < CurrentTime
     /\ CurrentTime < EffectiveTime(Dhuhr))
    => /\ result.kind = "result"
       /\ result.prayer = DHUHR

(***************************************************************************)
(* C6: Rule 3 selection: when the current time is inside no congregation   *)
(* window, the prayer returned is the one with the smallest                *)
(* Iqama-or-Adhan time strictly greater than the mosque-local current      *)
(* time, whenever such a prayer exists; a prayer whose time equals the     *)
(* current time is not the one returned as upcoming.                       *)
(***************************************************************************)
C6_Rule3Selection ==
    (/\ Returned
     /\ WindowPrayers = {}
     /\ UpcomingPrayers # {})
    => /\ \E p \in Earliest(UpcomingPrayers) :
             /\ result.prayer = p.prayer_name
             /\ result.prayer_time = IqamaOrAdhan(p)
       /\ fromisoformat(result.prayer_time) > CurrentTime

C6_Witness ==
    /\ Returned
    /\ WindowPrayers = {}
    /\ Cardinality(UpcomingPrayers) >= 2
    /\ prayers # SortedByTime(prayers)
    /\ result.prayer = ASR

(***************************************************************************)
(* C7: Rule 5 (roll-over): when every prayer's Iqama-or-Adhan time today   *)
(* is at or before the current time, no congregation window contains the   *)
(* current time and the catalog contains Fajr, the call returns Fajr with  *)
(* status CAN_CATCH_WITH_IMAM, can_catch = true and is_delayed = false,    *)
(* for every travel_minutes.                                               *)
(***************************************************************************)
C7_RollOverToFajr ==
    (/\ pc = "done"
     /\ prayers # <<>>
     /\ UpcomingPrayers = {}
     /\ WindowPrayers = {}
     /\ HasNamed(prayers, FAJR))
    => /\ result.kind = "result"
       /\ result.prayer = FAJR
       /\ result.status = CAN_CATCH_WITH_IMAM
       /\ result.can_catch
       /\ ~result.is_delayed

C7_Witness ==
    /\ Returned
    /\ UpcomingPrayers = {}
    /\ WindowPrayers = {}
    /\ user_travel_minutes = 400
    /\ ArrivalTime > EffectiveTime(Fajr)
    /\ result.prayer = FAJR
    /\ result.status = CAN_CATCH_WITH_IMAM

C9_InProgressBeforeUpcoming ==
    (/\ pc = "done"
     /\ WindowPrayers # {}
     /\ UpcomingPrayers # {})
    => /\ result.kind = "result"
       /\ \E p \in WindowPrayers : result.prayer = p.prayer_name
       /\ \A p \in UpcomingPrayers \ WindowPrayers : result.prayer # p.prayer_name

(***************************************************************************)
(* C10: cross-timezone arrival: the arrival instant is the traveler's      *)
(* current instant plus travel_minutes, and the arrival is expressed in    *)
(* the mosque's timezone: for a traveler whose zone is k hours behind the  *)
(* mosque the arrival wall clock is current + travel + k hours, and the    *)
(* current time the catalog is compared with is current + k hours (the     *)
(* time remaining to an upcoming prayer counts from it).  12:00 Pacific,   *)
(* 10 min                                                                  *)
(* travel and a Mountain-time mosque with Dhuhr Iqama 14:15 give arrival   *)
(* 13:10 and CAN_CATCH_WITH_IMAM for Dhuhr.                                *)
(***************************************************************************)
C10_CrossTimezoneArrival ==
    (Returned /\ Len(client_current_time) = 2)
    => LET wall == client_current_time[1]
           k == MosqueOffset - client_current_time[2]
       IN  /\ result.arrival_time.abs =
                 wall - client_current_time[2] + user_travel_minutes
           /\ result.arrival_time.off = MosqueOffset
           /\ result.arrival_time.abs + result.arrival_time.off =
                 wall + user_travel_minutes + k
           /\ (WindowPrayers = {} /\ UpcomingPrayers # {})
                 => result.time_remaining_minutes =
                       fromisoformat(result.prayer_time)
                           - ((wall + k) % DayMinutes)
           /\ (/\ (wall + k) % DayMinutes = 13 * 60
               /\ user_travel_minutes = 10
               /\ HasNamed(prayers, DHUHR)
               /\ Dhuhr.iqama_time = <<14, 15>>)
                 => /\ result.prayer = DHUHR
                    /\ result.status = CAN_CATCH_WITH_IMAM

C10_Witness ==
    /\ Returned
    /\ client_current_time = <<DayMinutes + 12 * 60, UtcOffset(LosAngeles)>>
    /\ mosque_coordinates = denver_coordinates
    /\ user_travel_minutes = 10
    /\ HasNamed(prayers, DHUHR)
    /\ Dhuhr.iqama_time = <<14, 15>>
    /\ TimeOf(result.arrival_time) = 13 * 60 + 10
    /\ result.prayer = DHUHR
    /\ result.status = CAN_CATCH_WITH_IMAM

(***************************************************************************)
(* What the claims C11 to C14 speak of                                     *)
(***************************************************************************)
\* the server clock as the finished call read it
ClockRead == IF server_now = Absent THEN 0 ELSE server_now[1]

\* neither the coordinates nor the fallback name gave the mosque a timezone
TimezoneUnresolved ==
    get_mosque_timezone(mosque_coordinates, client_timezone, tzfinder = "ok") = None

\* the traveler's wall clock in the traveler's own zone, and in UTC
TravelerWallClock == (UserNow.abs + UserNow.off) % DayMinutes

UtcWallClock == UserNow.abs % DayMinutes

\* the IANA name the model has for a UTC offset
ZoneOfOffset(off) == CHOOSE z \in KnownZones : UtcOffset(z) = off

WindowPrayersAt(w) ==
    {p \in Catalog : /\ EffectiveTime(p) <= w
                     /\ w <= EffectiveTime(p) + congregation_window_minutes}

UpcomingPrayersAt(w) == {p \in Catalog : EffectiveTime(p) > w}

WellFormed(ps) == \A i \in 1..Len(ps) :
    /\ ValidTime(ps[i].adhan_time)
    /\ ps[i].iqama_time # Absent => ValidTime(ps[i].iqama_time)

Malformed(p) ==
    \/ ~ValidTime(p.adhan_time)
    \/ p.iqama_time # Absent /\ ~ValidTime(p.iqama_time)

WithoutMalformed(ps) == SelectSeq(ps, LAMBDA p : ~Malformed(p))

C12_MalformedEntryDropped ==
    (pc = "done" /\ \E p \in Catalog : Malformed(p))
    => /\ result.kind # "error"
       /\ result = get_next_prayer(WithoutMalformed(prayers), user_travel_minutes,
                                   client_current_time, mosque_coordinates,
                                   client_timezone, tzfinder = "ok", ClockRead)

(***************************************************************************)
(* C13: for an empty catalog the call returns None (no opportunity) for    *)
(* every combination of the other arguments, an absent current time        *)
(* included, and never raises.                                             *)
(***************************************************************************)
C13_EmptyCatalogGivesNone ==
    (pc = "done" /\ prayers = <<>>) => result = NoResult

C13_Witness ==
    /\ pc = "done"
    /\ prayers = <<>>
    /\ client_current_time = Absent
    /\ client_timezone = "Invalid/Timezone"
    /\ user_travel_minutes = 400
    /\ result.kind = "none"

(***************************************************************************)
(* C14: Adhan stands in for a missing Iqama: for every catalog, current    *)
(* time and travel time the call gives the same prayer, status, can_catch, *)
(* time_remaining_minutes and prayer_time (or the same None or error) when *)
(* a prayer has iqama_time absent as when that prayer has iqama_time equal *)
(* to its adhan_time.                                                      *)
(***************************************************************************)
WithIqamaFilled(ps) ==
    [i \in 1..Len(ps) |->
        IF ps[i].iqama_time = Absent
        THEN [ps[i] EXCEPT !.iqama_time = ps[i].adhan_time] ELSE ps[i]]

Compared(r) ==
    <<r.kind, r.exc, r.prayer, r.status, r.can_catch, r.time_remaining_minutes,
      r.prayer_time>>

C14_AdhanStandsInForIqama ==
    pc = "done"
    => Compared(result) =
           Compared(get_next_prayer(WithIqamaFilled(prayers), user_travel_minutes,
                                    client_current_time, mosque_coordinates,
                                    client_timezone, tzfinder = "ok", ClockRead))

C14_Witness ==
    /\ Returned
    /\ \E p \in Catalog : /\ p.iqama_time = Absent
                          /\ result.prayer = p.prayer_name
                          /\ result.prayer_time = p.adhan_time
    /\ result.status = CAN_CATCH_WITH_IMAM

(***************************************************************************)
(* The time normalizers: PrayerTimeService._parse_time and                 *)
(* MosqueScraper._normalize_time.  A text is a sequence of one-character   *)
(* strings; a normalizer returns a text or None.                           *)
(***************************************************************************)
\* hour texts run from "0" to this number, minute texts from "00" to that
MaxHourText == 13
MaxMinuteText == 59

Digits == <<"0", "1", "2", "3", "4", "5", "6", "7", "8", "9">>

\* \d
IsDigit(c) == \E d \in 1..10 : Digits[d] = c

DigitValue(c) == (CHOOSE d \in 1..10 : Digits[d] = c) - 1

\* \s: the model's texts hold no whitespace but the blank
IsSpace(c) == c = " "

\* int(text) of a text of digits
RECURSIVE int(_)
int(t) ==
    IF t = <<>> THEN 0
    ELSE 10 * int(SubSeq(t, 1, Len(t) - 1)) + DigitValue(t[Len(t)])

\* str(n) for n >= 0
RECURSIVE Decimal(_)
Decimal(n) ==
    IF n < 10 THEN <<Digits[n + 1]>>
    ELSE Decimal(n \div 10) \o <<Digits[(n % 10) + 1]>>

\* f"{n:02d}": at least two digits, padded with a zero
format02d(n) == IF n < 10 THEN <<"0">> \o Decimal(n) ELSE Decimal(n)

RECURSIVE lstrip(_)
lstrip(t) == IF t # <<>> /\ IsSpace(Head(t)) THEN lstrip(Tail(t)) ELSE t

RECURSIVE rstrip(_)
rstrip(t) ==
    IF t # <<>> /\ IsSpace(t[Len(t)]) THEN rstrip(SubSeq(t, 1, Len(t) - 1)) ELSE t

strip(t) == rstrip(lstrip(t))

\* re.sub(r'\s+', ' ', t)
RECURSIVE collapse_whitespace(_)
collapse_whitespace(t) ==
    IF t = <<>> THEN <<>>
    ELSE IF IsSpace(Head(t)) THEN <<" ">> \o collapse_whitespace(lstrip(t))
    ELSE <<Head(t)>> \o collapse_whitespace(Tail(t))

\* str.upper() on the letters of a suffix
upper(t) ==
    [i \in 1..Len(t) |-> CASE t[i] = "a" -> "A"
                           [] t[i] = "p" -> "P"
                           [] t[i] = "m" -> "M"
                           [] OTHER -> t[i]]

\* (\d{1,2}):(\d{2}) tried at position i: the greedy \d{1,2} takes two
\* digits when a colon and two digits follow them, else one
TwoDigitHourAt(t, i) ==
    /\ i + 4 <= Len(t)
    /\ IsDigit(t[i]) /\ IsDigit(t[i + 1]) /\ t[i + 2] = ":"
    /\ IsDigit(t[i + 3]) /\ IsDigit(t[i + 4])

OneDigitHourAt(t, i) ==
    /\ i + 3 <= Len(t)
    /\ IsDigit(t[i]) /\ t[i + 1] = ":"
    /\ IsDigit(t[i + 2]) /\ IsDigit(t[i + 3])

\* the alternatives of (AM|PM|am|pm)
AmPmTexts == {<<"A", "M">>, <<"P", "M">>, <<"a", "m">>, <<"p", "m">>}

\* re.search(r'(\d{1,2}):(\d{2})\s*(AM|PM|am|pm)?', t): the leftmost match
\* and its three groups; the third is <<>> when the suffix does not follow
time_match(t) ==
    LET starts == {i \in 1..Len(t) : TwoDigitHourAt(t, i) \/ OneDigitHourAt(t, i)}
    IN  IF starts = {}
        THEN [found |-> FALSE, hour |-> 0, minute |-> 0, ampm |-> <<>>]
        ELSE LET i == CHOOSE k \in starts : \A j \in starts : k <= j
                 colon == IF TwoDigitHourAt(t, i) THEN i + 2 ELSE i + 1
                 rest == lstrip(SubSeq(t, colon + 3, Len(t)))
             IN  [found |-> TRUE,
                  hour |-> int(SubSeq(t, i, colon - 1)),
                  minute |-> int(SubSeq(t, colon + 1, colon + 2)),
                  ampm |-> IF Len(rest) >= 2 /\ SubSeq(rest, 1, 2) \in AmPmTexts
                           THEN SubSeq(rest, 1, 2) ELSE <<>>]

\* the conversion to the 24-hour clock both normalizers share
to_24_hour(hour, ampm) ==
    IF ampm # <<>> /\ upper(ampm) = <<"P", "M">> /\ hour # 12 THEN hour + 12
    ELSE IF ampm # <<>> /\ upper(ampm) = <<"A", "M">> /\ hour = 12 THEN 0
    ELSE hour

ReturnsNone == [state |-> "None", text |-> <<>>]

ReturnsText(t) == [state |-> "str", text |-> t]

\* PrayerTimeService._parse_time
parse_time(t) ==
    LET m == time_match(collapse_whitespace(strip(t)))
    IN  IF m.found
        THEN ReturnsText(format02d(to_24_hour(m.hour, m.ampm)) \o <<":">>
                             \o format02d(m.minute))
        ELSE ReturnsNone

\* MosqueScraper._normalize_time
normalize_time(t) ==
    LET m == time_match(t)
        hour == to_24_hour(m.hour, m.ampm)
    IN  IF t = <<>> \/ ~m.found THEN ReturnsNone
        ELSE IF 0 <= hour /\ hour <= 23 /\ 0 <= m.minute /\ m.minute <= 59
        THEN ReturnsText(format02d(hour) \o <<":">> \o format02d(m.minute))
        ELSE ReturnsNone

\* the texts fed to the normalizers: an hour text, a colon, a minute text
\* and a suffix; some stand between blanks
HourTexts ==
    {Decimal(h) : h \in 0..MaxHourText}
    \cup {<<"0", "6">>, <<"2", "5">>, <<"1", "2", "3">>}

MinuteTexts ==
    {format02d(m) : m \in 0..MaxMinuteText} \cup {<<"7", "5">>, <<"3", "0", "1">>}

SuffixTexts ==
    {<<>>, <<"A", "M">>, <<"P", "M">>, <<"a", "m">>, <<"p", "m">>,
     <<" ", "A", "M">>, <<" ", "p", "m">>, <<"P", "m">>, <<" ", "a", "M">>}

TimeTexts ==
    {h \o <<":">> \o m \o x : h \in HourTexts, m \in MinuteTexts, x \in SuffixTexts}
    \cup {<<" ">> \o h \o <<":", "3", "0", " ", " ", "P", "M", " ">> : h \in HourTexts}

\* no prayer call is being made
ClassifierIdle ==
    /\ prayers = <<>>
    /\ user_travel_minutes = 0
    /\ client_current_time = Absent
    /\ mosque_coordinates = Absent
    /\ client_timezone = None
    /\ tzfinder = None
    /\ server_now = Absent
    /\ result = NoResult
    /\ pc = "idle"

InitNormalize ==
    /\ ClassifierIdle
    /\ ServiceIdle
    /\ HelperIdle
    /\ PageIdle
    /\ RequestIdle
    /\ FetchIdle
    /\ time_str \in TimeTexts
    /\ parsed = [state |-> "pending", text |-> <<>>]
    /\ normalized = [state |-> "pending", text |-> <<>>]

ParseTime ==
    /\ parsed.state = "pending"
    /\ parsed' = parse_time(time_str)
    /\ UNCHANGED <<time_str, normalized>>
    /\ UNCHANGED <<classifierVars, serviceVars, helperVars, pageVars, requestVars, fetchVars>>

NormalizeTime ==
    /\ normalized.state = "pending"
    /\ normalized' = normalize_time(time_str)
    /\ UNCHANGED <<time_str, parsed>>
    /\ UNCHANGED <<classifierVars, serviceVars, helperVars, pageVars, requestVars, fetchVars>>

NextNormalize == ParseTime \/ NormalizeTime

SpecNormalize == InitNormalize /\ [][NextNormalize]_vars

(***************************************************************************)
(* What the claims C17 and C18 speak of: the time text as a reader takes   *)
(* it, the digits on either side of its colon and what follows them        *)
(***************************************************************************)
ColonAt(t) == CHOOSE i \in 1..Len(t) : t[i] = ":"

RECURSIVE DigitsBefore(_, _)
DigitsBefore(t, i) ==
    IF i >= 1 /\ IsDigit(t[i]) THEN 1 + DigitsBefore(t, i - 1) ELSE 0

RECURSIVE DigitsFrom(_, _)
DigitsFrom(t, i) ==
    IF i <= Len(t) /\ IsDigit(t[i]) THEN 1 + DigitsFrom(t, i + 1) ELSE 0

HourText(t) == SubSeq(t, ColonAt(t) - DigitsBefore(t, ColonAt(t) - 1), ColonAt(t) - 1)

MinuteText(t) == SubSeq(t, ColonAt(t) + 1, ColonAt(t) + DigitsFrom(t, ColonAt(t) + 1))

\* what follows the minute digits, blanks apart, in upper case
SuffixText(t) ==
    upper(strip(SubSeq(t, ColonAt(t) + Len(MinuteText(t)) + 1, Len(t))))

SurplusDigits(t) == Len(HourText(t)) > 2 \/ Len(MinuteText(t)) > 2

\* the hour on the 24-hour clock that the text names
HourNamed(t) ==
    LET h == int(HourText(t))
    IN  IF SuffixText(t) = <<"P", "M">> /\ h # 12 THEN h + 12
        ELSE IF SuffixText(t) = <<"A", "M">> /\ h = 12 THEN 0
        ELSE h

OutOfRange(t) == HourNamed(t) > 23 \/ int(MinuteText(t)) > 59

\* HH:MM with hour 00-23 and minute 00-59
IsCanonical(t) ==
    /\ Len(t) = 5
    /\ IsDigit(t[1]) /\ IsDigit(t[2]) /\ t[3] = ":" /\ IsDigit(t[4]) /\ IsDigit(t[5])
    /\ int(SubSeq(t, 1, 2)) <= 23
    /\ int(SubSeq(t, 4, 5)) <= 59

\* the outputs the normalizers have produced so far
Outputs == {o \in {parsed, normalized} : o.state \in {"None", "str"}}

(***************************************************************************)
(* C17: every time normalizer returns either failure or an HH:MM text with *)
(* hour 00-23 and minute 00-59: an input whose hour or minute is out of    *)
(* range after the 12-hour conversion (25:00, 13:00 PM, 10:75) fails, and  *)
(* an input with surplus digits (123:45, 6:301) fails rather than yielding *)
(* a time built from a truncated part of it.  This holds for _parse_time   *)
(* and for _normalize_time.                                                *)
(***************************************************************************)
C17_NormalizersRejectInvalid ==
    \A o \in Outputs :
        /\ o.state = "str" => IsCanonical(o.text)
        /\ (OutOfRange(time_str) \/ SurplusDigits(time_str)) => o.state = "None"

(***************************************************************************)
(* C18: 12-hour conversion: for every hour h in 1..12 and minute m in      *)
(* 0..59, 'h:mm PM' yields hour h + 12 when h # 12 and 12 when h = 12;     *)
(* 'h:mm AM' yields hour 0 when h = 12 and h otherwise; an input without   *)
(* AM/PM keeps its hour; the output is zero-padded HH:MM, and the suffix   *)
(* is matched case-insensitively, with or without a blank before it.       *)
(***************************************************************************)
C18_TwelveHourConversion ==
    (/\ ~SurplusDigits(time_str)
     /\ SuffixText(time_str) \in {<<>>, <<"A", "M">>, <<"P", "M">>}
     /\ int(HourText(time_str)) \in 1..12
     /\ int(MinuteText(time_str)) \in 0..59)
    => \A o \in Outputs :
           /\ o.state = "str"
           /\ o.text = format02d(HourNamed(time_str)) \o <<":">>
                           \o format02d(int(MinuteText(time_str)))

(***************************************************************************)
(* The catalog entry points: PrayerTimeService.get_mosque_prayers,         *)
(* MosqueScraper.scrape_mosque_prayers and                                 *)
(* ComprehensivePrayerScraper.scrape_mosque_prayers.  Each call runs up to *)
(* its await on the site and, resumed, to its return; the site raises,     *)
(* answers 404, answers a page without prayers or a page with prayers.     *)
(***************************************************************************)
\* the server clock advances MaxClockTicks times, ClockStepHours at a time
MaxClockTicks == 5
ClockStepHours == 6

PrayerTimeService == "PrayerTimeService"
MosqueScraper == "MosqueScraper"
ComprehensivePrayerScraper == "ComprehensivePrayerScraper"

\* self.cache_expiry, in hours
service_cache_expiry == 24
scraper_cache_expiry == 6

Mosque(place_id, website) == [place_id |-> place_id, website |-> website]

Mosques ==
    {Mosque("test_mosque", "https://testmasjid.org"),
     Mosque("test_mosque_no_site", None),
     Mosque("page_mosque", "https://facebook.com/testmasjid")}

\* any(domain in website_url.lower() for domain in [...])
IsSocialMedia(url) == url = "https://facebook.com/testmasjid"

\* what an entry point returns: a list of Prayer, or it raises
ListOf(v) == [kind |-> "list", value |-> v, exc |-> None]

Raises(e) == [kind |-> "error", value |-> <<>>, exc |-> e]

\* PrayerTimeService._get_default_prayers
get_default_prayers ==
    <<Prayer(FAJR, <<5, 50>>, <<6, 0>>), Prayer(DHUHR, <<12, 45>>, <<13, 0>>),
      Prayer(ASR, <<16, 15>>, <<16, 30>>), Prayer(MAGHRIB, <<19, 10>>, <<19, 20>>),
      Prayer(ISHA, <<20, 30>>, <<20, 45>>)>>

\* ComprehensivePrayerScraper._get_default_prayers: the five and Jumaa
comprehensive_default_prayers ==
    get_default_prayers \o <<Prayer(JUMAA, <<12, 30>>, <<12, 30>>)>>

\* the prayers a page with a two-row table yields
table_prayers ==
    <<Prayer(FAJR, <<5, 45>>, <<6, 5>>), Prayer(DHUHR, <<12, 50>>, <<13, 10>>)>>

FetchOutcomes == {"raises", "404", "no_prayers", "prayers"}

\* mutant: the fetch is not guarded, its exception reaches the caller
scrape_prayer_times_unguarded(outcome) ==
    IF outcome = "raises" THEN Raises("ConnectError")
    ELSE ListOf(IF outcome = "prayers" THEN table_prayers ELSE <<>>)

\* PrayerTimeService._scrape_prayer_times: [] on an exception, on a status
\* other than 200 and when no strategy extracts a prayer
scrape_prayer_times(outcome) ==
    ListOf(IF outcome = "prayers" THEN table_prayers ELSE <<>>)

\* ComprehensivePrayerScraper._comprehensive_scrape
comprehensive_scrape(outcome) ==
    ListOf(IF outcome = "prayers" THEN table_prayers ELSE <<>>)

\* the try block of MosqueScraper.scrape_mosque_prayers: the best list of
\* the home page, the prayer pages and the rendered page; [] on an exception
scrape_pages(outcome) ==
    ListOf(IF outcome = "prayers" THEN table_prayers ELSE <<>>)

\* datetime.now().date()
Date(c) == c \div 24

\* cache_key in self.cache and datetime.now() - cached_time < self.cache_expiry
CacheHit(key, expiry) ==
    \E e \in cache : e.key = key /\ clock - e.cached_time < expiry

Cached(key) == (CHOOSE e \in cache : e.key = key).data

\* self.cache[cache_key] = (prayers, datetime.now())
Store(key, data) ==
    {e \in cache : e.key # key} \cup {[key |-> key, data |-> data, cached_time |-> clock]}

Fetching(m, key) ==
    [pc |-> "fetching", mosque |-> m, cache_key |-> key, outcome |-> None,
     result |-> [kind |-> "pending", value |-> <<>>, exc |-> None]]

Done(m, key, outcome, res) ==
    [pc |-> "done", mosque |-> m, cache_key |-> key, outcome |-> outcome, result |-> res]

\* get_mosque_prayers up to 'await self._scrape_prayer_times(...)'
GetMosquePrayersBegin ==
    /\ entry = PrayerTimeService
    /\ task.pc \in {"idle", "done"}
    /\ \E m \in Mosques :
          LET cache_key == <<m.place_id, Date(clock)>>
          IN  task' = IF m.website = None
                      THEN Done(m, <<>>, None, ListOf(get_default_prayers))
                      ELSE IF CacheHit(cache_key, service_cache_expiry)
                      THEN Done(m, cache_key, "cached", ListOf(Cached(cache_key)))
                      ELSE Fetching(m, cache_key)
    /\ UNCHANGED <<clock, entry, cache, threads, catalog_list>>
    /\ UNCHANGED <<classifierVars, normalizerVars, helperVars, pageVars, requestVars, fetchVars>>

\* get_mosque_prayers from the return of _scrape_prayer_times on
GetMosquePrayersFinish ==
    /\ entry = PrayerTimeService
    /\ task.pc = "fetching"
    /\ \E outcome \in FetchOutcomes :
          LET scraped == scrape_prayer_times(outcome)
              found == IF scraped.value = <<>> THEN get_default_prayers
                       ELSE scraped.value
          IN  IF scraped.kind = "error"
              THEN /\ task' = Done(task.mosque, task.cache_key, outcome, scraped)
                   /\ cache' = cache
              ELSE /\ task' = Done(task.mosque, task.cache_key, outcome, ListOf(found))
                   /\ cache' = Store(task.cache_key, found)
    /\ UNCHANGED <<clock, entry, threads, catalog_list>>
    /\ UNCHANGED <<classifierVars, normalizerVars, helperVars, pageVars, requestVars, fetchVars>>

\* MosqueScraper.scrape_mosque_prayers(mosque.website) up to its first fetch
ScrapeMosquePrayersBegin ==
    /\ entry = MosqueScraper
    /\ task.pc \in {"idle", "done"}
    /\ \E m \in Mosques :
          LET website_url == m.website
              cache_key == <<website_url, Date(clock)>>
          IN  task' = IF website_url = None
                      THEN Done(m, <<>>, None, ListOf(<<>>))
                      ELSE IF CacheHit(cache_key, scraper_cache_expiry)
                      THEN Done(m, cache_key, "cached", ListOf(Cached(cache_key)))
                      ELSE IF IsSocialMedia(website_url)
                      THEN Done(m, cache_key, None, ListOf(<<>>))
                      ELSE Fetching(m, cache_key)
    /\ UNCHANGED <<clock, entry, cache, threads, catalog_list>>
    /\ UNCHANGED <<classifierVars, normalizerVars, helperVars, pageVars, requestVars, fetchVars>>

\* MosqueScraper.scrape_mosque_prayers from its first fetch on
ScrapeMosquePrayersFinish ==
    /\ entry = MosqueScraper
    /\ task.pc = "fetching"
    /\ \E outcome \in FetchOutcomes :
          LET best_prayers == scrape_pages(outcome).value
          IN  /\ task' = Done(task.mosque, task.cache_key, outcome, ListOf(best_prayers))
              /\ cache' = IF best_prayers # <<>>
                          THEN Store(task.cache_key, best_prayers) ELSE cache
    /\ UNCHANGED <<clock, entry, threads, catalog_list>>
    /\ UNCHANGED <<classifierVars, normalizerVars, helperVars, pageVars, requestVars, fetchVars>>

\* ComprehensivePrayerScraper.scrape_mosque_prayers up to its await
ComprehensiveScrapeBegin ==
    /\ entry = ComprehensivePrayerScraper
    /\ task.pc \in {"idle", "done"}
    /\ \E m \in Mosques :
          LET cache_key == <<m.place_id, Date(clock)>>
          IN  task' = IF m.website = None
                      THEN Done(m, <<>>, None, ListOf(comprehensive_default_prayers))
                      ELSE IF CacheHit(cache_key, scraper_cache_expiry)
                      THEN Done(m, cache_key, "cached", ListOf(Cached(cache_key)))
                      ELSE Fetching(m, cache_key)
    /\ UNCHANGED <<clock, entry, cache, threads, catalog_list>>
    /\ UNCHANGED <<classifierVars, normalizerVars, helperVars, pageVars, requestVars, fetchVars>>

\* ComprehensivePrayerScraper.scrape_mosque_prayers from its await on
ComprehensiveScrapeFinish ==
    /\ entry = ComprehensivePrayerScraper
    /\ task.pc = "fetching"
    /\ \E outcome \in FetchOutcomes :
          LET scraped == comprehensive_scrape(outcome).value
              found == IF scraped = <<>> THEN comprehensive_default_prayers
                       ELSE scraped
          IN  /\ task' = Done(task.mosque, task.cache_key, outcome, ListOf(found))
              /\ cache' = Store(task.cache_key, found)
    /\ UNCHANGED <<clock, entry, threads, catalog_list>>
    /\ UNCHANGED <<classifierVars, normalizerVars, helperVars, pageVars, requestVars, fetchVars>>

\* time passes on the server
Tick ==
    /\ clock < MaxClockTicks * ClockStepHours
    /\ clock' = clock + ClockStepHours
    /\ UNCHANGED <<entry, task, cache, threads, catalog_list>>
    /\ UNCHANGED <<classifierVars, normalizerVars, helperVars, pageVars, requestVars, fetchVars>>

InitScrape ==
    /\ ClassifierIdle
    /\ NormalizerIdle
    /\ HelperIdle
    /\ PageIdle
    /\ RequestIdle
    /\ FetchIdle
    /\ clock = 0
    /\ entry \in {PrayerTimeService, MosqueScraper, ComprehensivePrayerScraper}
    /\ task = IdleTask
    /\ cache = {}
    /\ threads = <<>>
    /\ catalog_list = <<>>

NextScrape ==
    \/ Tick
    \/ GetMosquePrayersBegin
    \/ GetMosquePrayersFinish
    \/ ScrapeMosquePrayersBegin
    \/ ScrapeMosquePrayersFinish
    \/ ComprehensiveScrapeBegin
    \/ ComprehensiveScrapeFinish

SpecScrape == InitScrape /\ [][NextScrape]_vars

\* the call ended without a usable answer of the site
NoWebsite == task.mosque.website = None

FetchFailed == task.outcome \in {"raises", "404"}

FiveDailyPrayers == {FAJR, DHUHR, ASR, MAGHRIB, ISHA}

(***************************************************************************)
(* C19: PrayerTimeService.get_mosque_prayers never propagates a            *)
(* collaborator failure and never returns an empty catalog: when the       *)
(* mosque has no website, when the fetch raises or returns a non-200       *)
(* status, or when no prayer can be extracted, it returns the static       *)
(* default catalog of Fajr, Dhuhr, Asr, Maghrib and Isha.                  *)
(***************************************************************************)
C19_GetMosquePrayersFallsBack ==
    (entry = PrayerTimeService /\ task.pc = "done")
    => /\ task.result.kind = "list"
       /\ task.result.value # <<>>
       /\ (NoWebsite \/ FetchFailed \/ task.outcome = "no_prayers")
             => /\ task.result.value = get_default_prayers
                /\ {task.result.value[i].prayer_name : i \in 1..Len(task.result.value)}
                       = FiveDailyPrayers

C19_Witness ==
    /\ entry = PrayerTimeService
    /\ task.pc = "done"
    /\ task.mosque.website # None
    /\ task.outcome = "raises"
    /\ task.result = ListOf(get_default_prayers)
    /\ \E e \in cache : e.key = task.cache_key /\ e.data = get_default_prayers

(***************************************************************************)
(* C20: the scraper entry point scrape_mosque_prayers falls back to        *)
(* defaults: for a mosque without a website, when the HTTP client raises a *)
(* network error and when the site answers HTTP 404 it returns at least    *)
(* five prayers that include Fajr, Dhuhr, Asr, Maghrib and Isha; it does   *)
(* not return an empty list and does not raise.                            *)
(***************************************************************************)
C20_ScraperFallsBackToDefaults ==
    (/\ entry \in {MosqueScraper, ComprehensivePrayerScraper}
     /\ task.pc = "done"
     /\ NoWebsite \/ FetchFailed)
    => /\ task.result.kind = "list"
       /\ Len(task.result.value) >= 5
       /\ \A n \in FiveDailyPrayers : HasNamed(task.result.value, n)

(***************************************************************************)
(* get_next_prayer called from several threads on one service instance,    *)
(* all handed the same list object (the cached catalog of a mosque).  A    *)
(* call runs in three steps: up to the parsed current time, the sort, and  *)
(* the classification; the steps of different calls interleave, and the    *)
(* server clock advances between them.                                     *)
(***************************************************************************)
Threads == {"t1", "t2"}

\* datetime.now(pytz.UTC), in minutes since 00:00 UTC of day 0
ServerNow == DayMinutes + clock * 60

\* mutant: prayers.sort(key = ...) orders the caller's list in place
list_after_sort_in_place(ps) == SortedByTime(ps)

\* sorted(prayers, key = ...) builds a new list: its argument stays as it is
list_after_sorted(ps) == ps

\* a call that has not begun
NewCall(travel, cct, ctz) ==
    [pc |-> "call", user_travel_minutes |-> travel, client_current_time |-> cct,
     client_timezone |-> ctz, called_at |-> -1, prayers_at_call |-> <<>>,
     user_current_dt |-> [abs |-> 0, off |-> 0], sorted_prayers |-> <<>>,
     result |-> NoResult]

\* lines 202-231: the empty test and the traveler's current instant
GetNextPrayerBegin(t) ==
    /\ threads[t].pc = "call"
    /\ threads' =
          [threads EXCEPT ![t] =
              IF catalog_list = <<>>
              THEN [@ EXCEPT !.pc = "done", !.called_at = clock, !.result = NoResult]
              ELSE [@ EXCEPT !.pc = "parsed",
                             !.called_at = clock,
                             !.prayers_at_call = catalog_list,
                             !.user_current_dt =
                                 parse_user_current_time(
                                     threads[t].client_current_time,
                                     threads[t].client_timezone, ServerNow)]]
    /\ UNCHANGED <<clock, entry, task, cache, catalog_list>>
    /\ UNCHANGED <<classifierVars, normalizerVars, helperVars, pageVars, requestVars, fetchVars>>

\* line 234: the sort, which parses every catalog time
GetNextPrayerSort(t) ==
    /\ threads[t].pc = "parsed"
    /\ IF \E i \in 1..Len(catalog_list) : ~ValidTime(IqamaOrAdhan(catalog_list[i]))
       THEN /\ threads' = [threads EXCEPT ![t] =
                              [@ EXCEPT !.pc = "done", !.result = Raised("ValueError")]]
            /\ catalog_list' = catalog_list
       ELSE /\ threads' = [threads EXCEPT ![t] =
                              [@ EXCEPT !.pc = "sorted",
                                        !.sorted_prayers = SortedByTime(catalog_list)]]
            /\ catalog_list' = list_after_sorted(catalog_list)
    /\ UNCHANGED <<clock, entry, task, cache>>
    /\ UNCHANGED <<classifierVars, normalizerVars, helperVars, pageVars, requestVars, fetchVars>>

\* lines 205-231 and 237-242: the mosque's zone, the arrival and the
\* classification of the sorted copy
GetNextPrayerClassify(t) ==
    /\ threads[t].pc = "sorted"
    /\ LET th == threads[t]
           zone == get_mosque_timezone(Absent, th.client_timezone, FALSE)
           mosque_off == IF zone # None THEN UtcOffset(zone) ELSE th.user_current_dt.off
           arrival_time_user_tz == PlusMinutes(th.user_current_dt, th.user_travel_minutes)
       IN  threads' =
              [threads EXCEPT ![t] =
                  [@ EXCEPT !.pc = "done",
                            !.result =
                                find_best_prayer_opportunity(
                                    th.sorted_prayers,
                                    AsTimezone(th.user_current_dt, mosque_off),
                                    AsTimezone(arrival_time_user_tz, mosque_off),
                                    th.user_travel_minutes)]]
    /\ UNCHANGED <<clock, entry, task, cache, catalog_list>>
    /\ UNCHANGED <<classifierVars, normalizerVars, helperVars, pageVars, requestVars, fetchVars>>

\* the arguments of the calls: a trip of 10 or 30 minutes; the client's
\* time with its offset, without it, or none; the client's zone or a name
\* pytz does not know
CallArguments ==
    {NewCall(travel, cct, ctz) :
        travel \in {10, 30},
        cct \in {<<DayMinutes + 5 * 60 + 50, UtcOffset(LosAngeles)>>,
                 <<DayMinutes + 5 * 60 + 50>>, Absent},
        ctz \in {LosAngeles, "Invalid/Timezone"}}

\* the instance's cache holds the catalog of an earlier get_mosque_prayers
\* call
InitService ==
    /\ ClassifierIdle
    /\ NormalizerIdle
    /\ HelperIdle
    /\ PageIdle
    /\ RequestIdle
    /\ FetchIdle
    /\ clock = 0
    /\ entry = PrayerTimeService
    /\ task = IdleTask
    /\ cache = {[key |-> <<"test_mosque", 0>>, data |-> get_default_prayers,
                 cached_time |-> 0]}
    /\ catalog_list \in {get_default_prayers, Reverse(get_default_prayers)}
    /\ threads \in [Threads -> CallArguments]

NextService ==
    \/ Tick
    \/ \E t \in Threads : GetNextPrayerBegin(t)
    \/ \E t \in Threads : GetNextPrayerSort(t)
    \/ \E t \in Threads : GetNextPrayerClassify(t)

SpecService == InitService /\ [][NextService]_vars

\* the arguments of a call
ArgumentsOf(th) ==
    <<th.prayers_at_call, th.user_travel_minutes, th.client_current_time,
      th.client_timezone>>

\* the client's time is explicit: it carries its UTC offset, or it is a
\* local time in a zone pytz knows
ExplicitTime(th) ==
    \/ Len(th.client_current_time) = 2
    \/ Len(th.client_current_time) = 1 /\ th.client_timezone \in KnownZones

\* what the call would return running alone, at the clock it was made at
Alone(th) ==
    get_next_prayer(th.prayers_at_call, th.user_travel_minutes, th.client_current_time,
                    Absent, th.client_timezone, FALSE, DayMinutes + th.called_at * 60)

C16_NoEffectOnSharedState ==
    /\ [][threads' # threads => UNCHANGED <<cache, catalog_list>>]_vars
    /\ [](\A t \in Threads :
             /\ threads[t].pc # "call" => catalog_list = threads[t].prayers_at_call
             /\ threads[t].pc = "done" => threads[t].result = Alone(threads[t]))

C16_Witness ==
    /\ threads["t1"].pc = "done"
    /\ threads["t2"].pc = "done"
    /\ threads["t1"].called_at < threads["t2"].called_at
    /\ threads["t1"].result.kind = "result"
    /\ threads["t2"].result.kind = "result"
    /\ threads["t1"].result # threads["t2"].result
    /\ catalog_list = Reverse(get_default_prayers)
    /\ cache # {}

(***************************************************************************)
(* What the claims C22 to C25 speak of                                     *)
(***************************************************************************)
\* the prayers of the current mosque-local day a result may stand for: the
\* prayers whose congregation window holds the current time (rule 1), else
\* the earliest prayers still ahead (rule 3)
TodaysCandidates ==
    IF WindowPrayers # {} THEN WindowPrayers ELSE Earliest(UpcomingPrayers)

\* the call rolled over to tomorrow's Fajr (rule 5)
RolledOver == WindowPrayers = {} /\ UpcomingPrayers = {}

(***************************************************************************)
(* C22: no false 'with Imam' across midnight: whenever the call returns    *)
(* CAN_CATCH_WITH_IMAM for a prayer of the current mosque-local day (rule  *)
(* 1 or rule 3), the real arrival instant (current instant + travel        *)
(* minutes, counted as elapsed minutes without wrapping at 24:00) is not   *)
(* later than that prayer's Iqama-or-Adhan instant on that day; a trip     *)
(* that ends after midnight is never classified as arriving before an      *)
(* evening Iqama.                                                          *)
(***************************************************************************)
C22_NoFalseWithImamAcrossMidnight ==
    \A p \in TodaysCandidates :
        (/\ Returned
         /\ result.prayer = p.prayer_name
         /\ result.prayer_time = IqamaOrAdhan(p)
         /\ result.status = CAN_CATCH_WITH_IMAM)
        => ArrivalToday <= EffectiveTime(p)

(***************************************************************************)
(* C23: time_remaining_minutes of every result the call returns is >= 0    *)
(* (floored at 0) for every travel_minutes >= 0, in the in-progress        *)
(* branch, the upcoming-prayer branch and the roll-over to tomorrow's      *)
(* Fajr.                                                                   *)
(***************************************************************************)
C23_TimeRemainingNonNegative ==
    (Returned /\ user_travel_minutes >= 0) => result.time_remaining_minutes >= 0

(***************************************************************************)
(* C24: order independence: because the catalog is sorted by               *)
(* Iqama-or-Adhan time before use, the call returns the same result for    *)
(* every permutation of the same catalog (at most one Prayer per name,     *)
(* including a Jumaa entry whose time may coincide with another prayer's), *)
(* for every current time and travel time.  The permutations compared are  *)
(* the reversed list and the list with its first entry moved to the end.   *)
(***************************************************************************)
OnePerName(ps) ==
    \A i, j \in 1..Len(ps) : ps[i].prayer_name = ps[j].prayer_name => i = j

Rearranged(ps) == {Reverse(ps), Tail(ps) \o <<Head(ps)>>}

C24_OrderIndependent ==
    (pc = "done" /\ prayers # <<>> /\ OnePerName(prayers))
    => \A q \in Rearranged(prayers) :
           result = get_next_prayer(q, user_travel_minutes, client_current_time,
                                    mosque_coordinates, client_timezone,
                                    tzfinder = "ok", ClockRead)

(***************************************************************************)
(* C25: in every result the call returns, can_catch is true exactly when   *)
(* status is one of CAN_CATCH_WITH_IMAM, CAN_CATCH_AFTER_IMAM,             *)
(* CAN_CATCH_DELAYED, and false exactly when status is CANNOT_CATCH; the   *)
(* status MISSED is never produced.                                        *)
(***************************************************************************)
C25_CanCatchMatchesStatus ==
    Returned
    => /\ result.can_catch <=>
              result.status \in {CAN_CATCH_WITH_IMAM, CAN_CATCH_AFTER_IMAM,
                                 CAN_CATCH_DELAYED}
       /\ ~result.can_catch <=> result.status = CANNOT_CATCH
       /\ result.status # MISSED
       /\ result.status \in PrayerStatus

C25_Witness ==
    /\ Returned
    /\ WindowPrayers # {}
    /\ result.status = CANNOT_CATCH
    /\ ~result.can_catch

(***************************************************************************)
(* Direct calls of two helpers of the classifier:                          *)
(* _get_next_prayer_adhan_time(current_prayer, prayers) on a well-formed   *)
(* catalog and one of its prayers, and                                     *)
(* _get_mosque_timezone(mosque_coordinates, fallback_timezone), whose      *)
(* import of timezonefinder succeeds or raises ImportError.                *)
(***************************************************************************)
CoordinateChoices ==
    {Absent, sf_coordinates, denver_coordinates, new_york_coordinates,
     bay_area_corner, north_of_bay_area_corner}

FallbackChoices == {None, LosAngeles, Denver, "Invalid/Timezone"}

InitHelpers ==
    /\ NormalizerIdle
    /\ ServiceIdle
    /\ PageIdle
    /\ RequestIdle
    /\ FetchIdle
    /\ prayers \in {c \in Catalogs : c # <<>> /\ WellFormed(c)}
    /\ user_travel_minutes = 0
    /\ client_current_time = Absent
    /\ mosque_coordinates \in CoordinateChoices
    /\ client_timezone \in FallbackChoices
    /\ tzfinder = None
    /\ server_now = Absent
    /\ result = NoResult
    /\ pc = "idle"
    /\ asked_prayer \in {prayers[i] : i \in 1..Len(prayers)}
    /\ next_prayer_adhan = Pending
    /\ mosque_timezone = Pending

\* self._get_next_prayer_adhan_time(asked_prayer, prayers)
GetNextPrayerAdhanTime ==
    /\ next_prayer_adhan = Pending
    /\ next_prayer_adhan' = Returns(get_next_prayer_adhan_time(asked_prayer, prayers))
    /\ UNCHANGED <<asked_prayer, mosque_timezone>>
    /\ UNCHANGED <<classifierVars, normalizerVars, serviceVars, pageVars, requestVars, fetchVars>>

\* self._get_mosque_timezone(mosque_coordinates, client_timezone)
GetMosqueTimezone ==
    /\ mosque_timezone = Pending
    /\ \E tf \in (IF mosque_coordinates # Absent THEN BOOLEAN ELSE {FALSE}) :
          /\ mosque_timezone' =
                 Returns(get_mosque_timezone(mosque_coordinates, client_timezone, tf))
          /\ tzfinder' = IF mosque_coordinates # Absent
                         THEN (IF tf THEN "ok" ELSE "ImportError") ELSE None
    /\ UNCHANGED <<prayers, user_travel_minutes, client_current_time,
                   mosque_coordinates, client_timezone, server_now, result, pc>>
    /\ UNCHANGED <<asked_prayer, next_prayer_adhan>>
    /\ UNCHANGED <<normalizerVars, serviceVars, pageVars, requestVars, fetchVars>>

NextHelpers == GetNextPrayerAdhanTime \/ GetMosqueTimezone

SpecHelpers == InitHelpers /\ [][NextHelpers]_vars

(***************************************************************************)
(* C21: Fajr's solo-prayer boundary is estimated sunrise: for a catalog    *)
(* that contains both Fajr and Dhuhr, _get_next_prayer_adhan_time(Fajr,    *)
(* catalog) returns Fajr's time + 90 minutes and not Dhuhr's Adhan time,   *)
(* so an arrival after estimated sunrise but before Dhuhr is never         *)
(* classified CAN_CATCH_AFTER_IMAM for Fajr.                               *)
(***************************************************************************)
C21_FajrBoundaryIsSunrise ==
    (/\ next_prayer_adhan.state = "returned"
     /\ asked_prayer.prayer_name = FAJR
     /\ HasNamed(prayers, DHUHR))
    => /\ next_prayer_adhan.value =
              fromisoformat(asked_prayer.adhan_time) + fajr_to_sunrise_minutes
       /\ next_prayer_adhan.value # fromisoformat(Dhuhr.adhan_time)

(***************************************************************************)
(* C26: _get_mosque_timezone resolves in strict priority order: a          *)
(* successful geographic lookup of the coordinates; otherwise the first    *)
(* matching bounding-box rule (37-38 N, 123-121 W gives                    *)
(* America/Los_Angeles; 39-40 N, 106-104 W gives America/Denver);          *)
(* otherwise the fallback timezone when it is valid; otherwise unresolved. *)
(* A fallback timezone is never chosen when the coordinates match a        *)
(* bounding box, and with no coordinates a valid fallback is always        *)
(* chosen.                                                                 *)
(***************************************************************************)
\* the rules as the claim lists them, in 1/10000 degree
BoundingBoxes ==
    <<[min_lat |-> 37 * 10000, max_lat |-> 38 * 10000,
       min_lng |-> -(123 * 10000), max_lng |-> -(121 * 10000), tz |-> LosAngeles],
      [min_lat |-> 39 * 10000, max_lat |-> 40 * 10000,
       min_lng |-> -(106 * 10000), max_lng |-> -(104 * 10000), tz |-> Denver]>>

MatchingBoxes ==
    {i \in 1..Len(BoundingBoxes) :
        /\ mosque_coordinates # Absent
        /\ BoundingBoxes[i].min_lat <= mosque_coordinates[1]
        /\ mosque_coordinates[1] <= BoundingBoxes[i].max_lat
        /\ BoundingBoxes[i].min_lng <= mosque_coordinates[2]
        /\ mosque_coordinates[2] <= BoundingBoxes[i].max_lng}

LookupSucceeded ==
    /\ mosque_coordinates # Absent
    /\ tzfinder = "ok"
    /\ timezone_at(mosque_coordinates) # None

FallbackValid == client_timezone # None /\ client_timezone \in KnownZones

C26_TimezonePriority ==
    mosque_timezone.state = "returned"
    => /\ mosque_timezone.value =
              (IF LookupSucceeded THEN timezone_at(mosque_coordinates)
               ELSE IF MatchingBoxes # {}
               THEN BoundingBoxes[CHOOSE i \in MatchingBoxes :
                                      \A j \in MatchingBoxes : i <= j].tz
               ELSE IF FallbackValid THEN client_timezone
               ELSE None)
       /\ MatchingBoxes # {}
             => \E i \in MatchingBoxes : mosque_timezone.value = BoundingBoxes[i].tz
       /\ (mosque_coordinates = Absent /\ FallbackValid)
             => mosque_timezone.value = client_timezone

C26_Witness ==
    /\ mosque_timezone.state = "returned"
    /\ mosque_coordinates = denver_coordinates
    /\ tzfinder = "ImportError"
    /\ client_timezone = LosAngeles
    /\ mosque_timezone.value = Denver

(***************************************************************************)
(* What the claim C27 speaks of: the calendar date at the mosque.  The     *)
(* server's datetime.now() is UTC; the mosques stand in the Bay Area,      *)
(* the one known by its page in Denver.                                    *)
(***************************************************************************)
MosqueZone(m) == IF m.place_id = "page_mosque" THEN Denver ELSE LosAngeles

\* the mosque-local calendar date when the server clock reads c
MosqueLocalDate(m, c) == (c * 60 + UtcOffset(MosqueZone(m))) \div DayMinutes

\* self.cache_expiry of the instance that is called
cache_expiry ==
    IF entry = PrayerTimeService THEN service_cache_expiry ELSE scraper_cache_expiry

(***************************************************************************)
(* C27: cache freshness: after any sequence of get_mosque_prayers /        *)
(* scrape_mosque_prayers calls, a cached catalog is returned without       *)
(* re-scraping only if it was stored for the same mosque, on the same      *)
(* calendar date in mosque-local time, and its age is strictly less than   *)
(* cache_expiry; an entry aged cache_expiry or more, or stored on a        *)
(* different mosque-local date, is never served.                           *)
(***************************************************************************)
C27_CacheFreshness ==
    [][(task' # task /\ task'.pc = "done" /\ task'.outcome = "cached")
       => \E e \in cache :
             /\ e.data = task'.result.value
             /\ e.key[1] \in {task'.mosque.place_id, task'.mosque.website}
             /\ clock - e.cached_time < cache_expiry
             /\ MosqueLocalDate(task'.mosque, e.cached_time)
                    = MosqueLocalDate(task'.mosque, clock)]_vars

(***************************************************************************)
(* The extraction of a catalog from one page by the scraping               *)
(* collaborators: lines 44-53 of PrayerTimeService._scrape_prayer_times    *)
(* and lines 198-239 of MosqueScraper._scrape_page.  A page is its tables, *)
(* each a sequence of rows whose cells parsed to a prayer name, an Adhan   *)
(* and an Iqama time, and its text lines that name a prayer and a time;    *)
(* the lines stand above the tables or below them.  The pages hold no      *)
(* iframe, no JSON-LD and no container of class prayer, schedule or time.  *)
(***************************************************************************)
\* a page has up to MaxTables tables of up to MaxRows rows, and up to
\* MaxLines text lines
MaxTables == 2
MaxRows == 2
MaxLines == 2

\* today's Fajr, tomorrow's Fajr, Dhuhr
RowChoices ==
    {Prayer(FAJR, <<5, 45>>, <<6, 5>>), Prayer(FAJR, <<5, 46>>, <<6, 5>>),
     Prayer(DHUHR, <<12, 50>>, <<13, 10>>)}

\* "Fajr: 5:45 AM", "Fajr Iqama 6:05 AM", "Dhuhr 12:50 PM"
LineChoices ==
    {[name |-> FAJR, time |-> <<5, 45>>], [name |-> FAJR, time |-> <<6, 5>>],
     [name |-> DHUHR, time |-> <<12, 50>>]}

SeqsUpTo(S, n) == UNION {[1..k -> S] : k \in 0..n}

Pages ==
    {[tables |-> t, lines |-> l, text_above |-> a] :
        t \in SeqsUpTo(SeqsUpTo(RowChoices, MaxRows), MaxTables),
        l \in SeqsUpTo(LineChoices, MaxLines),
        a \in BOOLEAN}

RECURSIVE Flatten(_)
Flatten(ts) == IF ts = <<>> THEN <<>> ELSE Head(ts) \o Flatten(Tail(ts))

\* PrayerTimeService._extract_from_tables: a Prayer for every row of every
\* table
extract_from_tables(pg) == Flatten(pg.tables)

\* PrayerTimeService._extract_from_structured_content: a Prayer for every
\* line that names a prayer and a time
extract_from_structured_content(pg) ==
    [i \in 1..Len(pg.lines) |-> Prayer(pg.lines[i].name, pg.lines[i].time, Absent)]

\* lines 47-51: self._extract_from_tables(soup) or
\* self._extract_from_structured_content(soup) or []
extract_prayers(pg) ==
    IF extract_from_tables(pg) # <<>> THEN extract_from_tables(pg)
    ELSE extract_from_structured_content(pg)

\* MosqueScraper._extract_from_tables
scraper_extract_from_tables(pg) == Flatten(pg.tables)

\* soup.get_text() as the patterns of _parse_prayer_text see it: the
\* mentions of a prayer name followed by a time, in document order
get_text(pg) ==
    LET rows == Flatten(pg.tables)
        cells == [i \in 1..Len(rows) |->
                     [name |-> rows[i].prayer_name, time |-> rows[i].adhan_time]]
    IN  IF pg.text_above THEN pg.lines \o cells ELSE cells \o pg.lines

\* MosqueScraper._parse_prayer_text: for each of the five prayers the first
\* match of its patterns
parse_prayer_text(text) ==
    LET found == SelectSeq(prayer_order,
                           LAMBDA n : \E i \in 1..Len(text) : text[i].name = n)
        first(n) == text[CHOOSE i \in 1..Len(text) :
                            /\ text[i].name = n
                            /\ \A j \in 1..(i - 1) : text[j].name # n]
    IN  [k \in 1..Len(found) |-> Prayer(found[k], first(found[k]).time, Absent)]

\* lines 229-235: the first Prayer of every key (prayer_name, adhan_time)
RECURSIVE unique_prayers(_)
unique_prayers(ps) ==
    IF ps = <<>> THEN <<>>
    ELSE LET front == SubSeq(ps, 1, Len(ps) - 1)
             last == ps[Len(ps)]
         IN  IF \E j \in 1..Len(front) : /\ front[j].prayer_name = last.prayer_name
                                         /\ front[j].adhan_time = last.adhan_time
             THEN unique_prayers(front)
             ELSE Append(unique_prayers(front), last)

\* lines 200-239 of _scrape_page: the table rows, then the text matches
scrape_page(pg) ==
    unique_prayers(scraper_extract_from_tables(pg) \o parse_prayer_text(get_text(pg)))

InitPage ==
    /\ ClassifierIdle
    /\ NormalizerIdle
    /\ HelperIdle
    /\ RequestIdle
    /\ FetchIdle
    /\ clock = 0
    /\ entry \in {PrayerTimeService, MosqueScraper}
    /\ task = IdleTask
    /\ cache = {}
    /\ threads = <<>>
    /\ catalog_list = <<>>
    /\ page \in Pages
    /\ extracted = Pending

\* PrayerTimeService._scrape_prayer_times on a response of status 200
ScrapePrayerTimes ==
    /\ entry = PrayerTimeService
    /\ extracted = Pending
    /\ extracted' = Returns(extract_prayers(page))
    /\ UNCHANGED page
    /\ UNCHANGED <<classifierVars, normalizerVars, serviceVars, helperVars>>
    /\ UNCHANGED <<requestVars, fetchVars>>

\* MosqueScraper._scrape_page on a response of status 200
ScrapePage ==
    /\ entry = MosqueScraper
    /\ extracted = Pending
    /\ extracted' = Returns(scrape_page(page))
    /\ UNCHANGED page
    /\ UNCHANGED <<classifierVars, normalizerVars, serviceVars, helperVars>>
    /\ UNCHANGED <<requestVars, fetchVars>>

NextPage == ScrapePrayerTimes \/ ScrapePage

SpecPage == InitPage /\ [][NextPage]_vars

(***************************************************************************)
(* C28: every catalog produced by the scraping collaborators               *)
(* (PrayerTimeService._scrape_prayer_times, MosqueScraper._scrape_page)    *)
(* contains at most one Prayer per prayer name, whatever the page contains *)
(* (several tables, or table rows and text lines naming the same prayer    *)
(* with different times).                                                  *)
(***************************************************************************)
C28_OnePrayerPerName ==
    extracted.state = "returned" => OnePerName(extracted.value)

(***************************************************************************)
(* main.py: the handler of POST /api/mosques/nearby.  Once the Maps        *)
(* service has answered, the handler passes the mosques one by one; each   *)
(* pass is guarded by a try/except of its own.                             *)
(***************************************************************************)
\* the Maps service returns at most MaxMosques mosques to a request
MaxMosques == 2

\* TravelInfo.duration_seconds of a found mosque; <<>> when the route
\* could not be computed
TravelInfos == {Absent, [duration_seconds |-> 600], [duration_seconds |-> 1859]}

\* a Mosque as maps_service builds it: next_prayer None, prayers []
FoundMosque(m, travel_info) ==
    [place_id |-> m.place_id, website |-> m.website, travel_info |-> travel_info,
     next_prayer |-> NoResult, prayers |-> <<>>]

FoundMosques == {FoundMosque(m, t) : m \in Mosques, t \in TravelInfos}

\* what maps_service.find_nearby_mosques may return: mosques of distinct
\* places, [] included
FoundLists ==
    {l \in SeqsUpTo(FoundMosques, MaxMosques) :
        \A i, j \in 1..Len(l) : i # j => l[i].place_id # l[j].place_id}

\* request.client_current_time: Pacific wall clocks, or nothing
RequestTimes ==
    {<<DayMinutes + 5 * 60 + 50, UtcOffset(LosAngeles)>>,
     <<DayMinutes + 12 * 60 + 30, UtcOffset(LosAngeles)>>, Absent}

\* PrayerTimeService.get_mosque_prayers, from call to return: the list it
\* returns and the cache it leaves behind
get_mosque_prayers(m, outcome) ==
    LET cache_key == <<m.place_id, Date(clock)>>
        scraped == scrape_prayer_times(outcome)
        found == IF scraped.value = <<>> THEN get_default_prayers ELSE scraped.value
    IN  IF m.website = None
        THEN [result |-> ListOf(get_default_prayers), cache |-> cache]
        ELSE IF CacheHit(cache_key, service_cache_expiry)
        THEN [result |-> ListOf(Cached(cache_key)), cache |-> cache]
        ELSE IF scraped.kind = "error"
        THEN [result |-> scraped, cache |-> cache]
        ELSE [result |-> ListOf(found), cache |-> Store(cache_key, found)]

HttpError(status) == [kind |-> "error", status |-> status, mosques |-> <<>>]

\* mutant: the handler of a mosque's exception raises it again, so that
\* the outer handler answers HTTP 500
on_mosque_exception_reraise(r) == HttpError(500)

\* the except block inside the loop: the error is printed and the loop
\* goes on
on_mosque_exception(r) == r

\* the body of the loop for one mosque, on the catalog call's answer
after_mosque(m, fetched) ==
    IF fetched.kind = "error"
    THEN [mosque |-> m, raised |-> TRUE]
    ELSE LET with_prayers == [m EXCEPT !.prayers = fetched.value]
         IN  IF m.travel_info # Absent /\ fetched.value # <<>>
             THEN LET travel_minutes == m.travel_info.duration_seconds \div 60
                      next_prayer == get_next_prayer(fetched.value, travel_minutes,
                                                     request.client_current_time,
                                                     Absent, None, FALSE, ServerNow)
                  IN  IF next_prayer.kind = "error"
                      THEN [mosque |-> with_prayers, raised |-> TRUE]
                      ELSE [mosque |-> [with_prayers EXCEPT !.next_prayer = next_prayer],
                            raised |-> FALSE]
             ELSE [mosque |-> with_prayers, raised |-> FALSE]

\* find_nearby_mosques up to the loop: 503 without a Maps service, else the
\* mosques the Maps service found
FindNearbyMosquesBegin ==
    /\ entry = PrayerTimeService
    /\ response.kind \in {"idle", "ok", "error"}
    /\ request' \in {[client_current_time |-> t] : t \in RequestTimes}
    /\ handled' = 0
    /\ \E maps_service \in BOOLEAN :
          IF maps_service
          THEN /\ mosques' \in FoundLists
               /\ response' = [kind |-> "pending", status |-> 0, mosques |-> <<>>]
          ELSE /\ mosques' = <<>>
               /\ response' = HttpError(503)
    /\ UNCHANGED <<clock, entry, task, cache, threads, catalog_list>>
    /\ UNCHANGED <<classifierVars, normalizerVars, helperVars, pageVars, fetchVars>>

\* one pass of 'for mosque in mosques'
FindNearbyMosquesLoop ==
    /\ response.kind = "pending"
    /\ handled < Len(mosques)
    /\ \E outcome \in FetchOutcomes :
          LET fetched == get_mosque_prayers(mosques[handled + 1], outcome)
              after == after_mosque(mosques[handled + 1], fetched.result)
          IN  /\ cache' = fetched.cache
              /\ mosques' = [mosques EXCEPT ![handled + 1] = after.mosque]
              /\ response' = IF after.raised THEN on_mosque_exception(response)
                             ELSE response
    /\ handled' = handled + 1
    /\ UNCHANGED <<clock, entry, task, threads, catalog_list>>
    /\ UNCHANGED request
    /\ UNCHANGED <<classifierVars, normalizerVars, helperVars, pageVars, fetchVars>>

\* return MosqueResponse(mosques=mosques, ...)
FindNearbyMosquesReturn ==
    /\ response.kind = "pending"
    /\ handled = Len(mosques)
    /\ response' = [kind |-> "ok", status |-> 200, mosques |-> mosques]
    /\ UNCHANGED <<request, mosques, handled>>
    /\ UNCHANGED <<classifierVars, normalizerVars, serviceVars, helperVars,
                   pageVars, fetchVars>>

InitNearby ==
    /\ ClassifierIdle
    /\ NormalizerIdle
    /\ HelperIdle
    /\ PageIdle
    /\ RequestIdle
    /\ FetchIdle
    /\ clock = 0
    /\ entry = PrayerTimeService
    /\ task = IdleTask
    /\ cache = {}
    /\ threads = <<>>
    /\ catalog_list = <<>>

NextNearby ==
    \/ FindNearbyMosquesBegin
    \/ FindNearbyMosquesLoop
    \/ FindNearbyMosquesReturn

SpecNearby == InitNearby /\ [][NextNearby]_vars

\* computing the next prayer of a passed mosque raises
NextPrayerRaises(m) ==
    /\ m.travel_info # Absent
    /\ m.prayers # <<>>
    /\ get_next_prayer(m.prayers, m.travel_info.duration_seconds \div 60,
                       request.client_current_time, Absent, None, FALSE,
                       ServerNow).kind = "error"

(***************************************************************************)
(* C29: in find_nearby_mosques a failure while processing one mosque never *)
(* aborts the request.  The request is not turned into an error response   *)
(* once the mosques were found; a pass of the loop changes no other mosque *)
(* than its own and keeps the list's places and order; a mosque whose      *)
(* next-prayer computation raised keeps next_prayer unset; and the         *)
(* response holds every found mosque, in order, after all were passed.     *)
(***************************************************************************)
C29_FailureIsolation ==
    /\ [](response.kind = "error" => response.status = 503 /\ handled = 0)
    /\ [](\A i \in 1..handled :
             NextPrayerRaises(mosques[i]) => mosques[i].next_prayer = NoResult)
    /\ [](response.kind = "ok" => handled = Len(mosques) /\ response.mosques = mosques)
    /\ [][handled' = handled + 1
          => /\ Len(mosques') = Len(mosques)
             /\ \A i \in 1..Len(mosques) :
                   /\ mosques'[i].place_id = mosques[i].place_id
                   /\ i # handled' => mosques'[i] = mosques[i]]_vars

\* a mosque's next-prayer computation raised, a mosque after it got its
\* next prayer, and the response was sent
C29_Witness ==
    /\ response.kind = "ok"
    /\ Len(response.mosques) = 2
    /\ NextPrayerRaises(response.mosques[1])
    /\ response.mosques[1].prayers # <<>>
    /\ response.mosques[2].next_prayer.kind = "result"

(***************************************************************************)
(* mosque_scraper.py: the requests one MosqueScraper.scrape_mosque_prayers *)
(* call sends.  _scrape_page requests its URL up to max_retries times and, *)
(* on every answer of status 200, calls itself for each iframe of the page *)
(* whose src names prayers; nothing records the URLs already in progress.  *)
(***************************************************************************)
\* max_retries of _scrape_page
max_retries == 3

\* prayer_pages[:3]
page_limit == 3

\* how many _scrape_page calls may be nested before the interpreter raises
\* RecursionError
RecursionLimit == 3

home_url == "https://testmasjid.org"
widget_url == "https://testmasjid.org/prayer-widget"
\* the prayer pages a home page links to
prayer_links ==
    <<"https://testmasjid.org/prayer-times", "https://testmasjid.org/salah",
      "https://testmasjid.org/iqama", "https://testmasjid.org/jumaa">>

Urls == {home_url, widget_url} \cup {prayer_links[k] : k \in 1..Len(prayer_links)}

\* what a page holds for the scraper: the iframes whose src names prayers,
\* the links that name prayers, and whether prayer times can be extracted
WebPage(iframes, links, has_prayers) ==
    [iframes |-> iframes, links |-> links, has_prayers |-> has_prayers]

EmptyPage == WebPage(<<>>, <<>>, FALSE)

\* a home page without prayer times that links to four prayer pages,
\* the second of which shows the times
linked_site ==
    [u \in Urls |->
        IF u = home_url
        THEN WebPage(<<>>, prayer_links, FALSE)
        ELSE IF u = prayer_links[2] THEN WebPage(<<>>, <<>>, TRUE)
        ELSE EmptyPage]

\* a home page that embeds a widget page; the widget is filled in by a
\* script, or it shows the times
widget_site(has_prayers) ==
    [u \in Urls |->
        IF u = home_url THEN WebPage(<<widget_url>>, <<>>, FALSE)
        ELSE IF u = widget_url THEN WebPage(<<>>, <<>>, has_prayers)
        ELSE EmptyPage]

\* a home page that embeds a widget page which embeds itself
cyclic_site ==
    [u \in Urls |->
        IF u = home_url THEN WebPage(<<widget_url>>, <<>>, FALSE)
        ELSE IF u = widget_url THEN WebPage(<<widget_url>>, <<>>, FALSE)
        ELSE EmptyPage]

Sites == {linked_site, widget_site(FALSE), widget_site(TRUE), cyclic_site}

\* what client.get does: an answer of status 200, of another status, or
\* an exception
FetchResponses == {"200", "503", "raises"}

\* a _scrape_page call: its url, its attempt, whether it is about to send
\* its request or in the iframe loop, the iframe it is at, and whether
\* an iframe has given prayers
Frame(url) ==
    [url |-> url, attempt |-> 0, pc |-> "get", iframe |-> 1, iframe_prayers |-> FALSE]

\* the attempt of the innermost call ended without a return: the loop goes
\* to the next attempt
next_attempt(frames) ==
    [frames EXCEPT ![Len(frames)] =
        [@ EXCEPT !.attempt = @ + 1, !.pc = "get", !.iframe = 1,
                  !.iframe_prayers = FALSE]]

\* the innermost _scrape_page call returns: to the iframe loop of its
\* caller, or to scrape_mosque_prayers, which returns the home page's
\* prayers, goes on to _find_prayer_pages, or takes the next of the first
\* page_limit prayer pages
scrape_page_returns(v) ==
    LET callers == SubSeq(stack, 1, Len(stack) - 1)
        tried == scrape.index
        last == IF Len(scrape.prayer_pages) < page_limit
                THEN Len(scrape.prayer_pages) ELSE page_limit
    IN  IF callers # <<>>
        THEN [stack |-> [callers EXCEPT ![Len(callers)] =
                            [@ EXCEPT !.iframe = @ + 1,
                                      !.iframe_prayers = @ \/ v]],
              scrape |-> scrape]
        ELSE IF scrape.pc = "home"
        THEN [stack |-> <<>>,
              scrape |-> IF v THEN [scrape EXCEPT !.pc = "done", !.found = TRUE]
                         ELSE [scrape EXCEPT !.pc = "find"]]
        ELSE IF tried < last
        THEN [stack |-> <<Frame(scrape.prayer_pages[tried + 1])>>,
              scrape |-> [scrape EXCEPT !.index = tried + 1, !.found = @ \/ v]]
        ELSE [stack |-> <<>>,
              scrape |-> [scrape EXCEPT !.pc = "done", !.found = @ \/ v]]

\* self.cache[cache_key] = (prayers, datetime.now()) when the call ends
\* with prayers
cache_after(next_scrape) ==
    IF next_scrape.pc = "done" /\ next_scrape.found
    THEN Store(<<home_url, Date(clock)>>, table_prayers)
    ELSE cache

\* scrape_mosque_prayers up to its first _scrape_page call
FetchStart ==
    /\ scrape.pc = "idle"
    /\ scrape' = [scrape EXCEPT !.pc = "home"]
    /\ stack' = <<Frame(home_url)>>
    /\ UNCHANGED <<site, attempts>>
    /\ UNCHANGED <<classifierVars, normalizerVars, serviceVars, helperVars,
                   pageVars, requestVars>>

\* _scrape_page: 'response = await client.get(url)' and what follows up to
\* the iframe loop
ScrapePageGet ==
    /\ stack # <<>>
    /\ stack[Len(stack)].pc = "get"
    /\ attempts' = [attempts EXCEPT ![stack[Len(stack)].url] = @ + 1]
    /\ \E answer \in FetchResponses :
          LET returns == scrape_page_returns(FALSE)
          IN  IF answer = "200"
              THEN /\ stack' = [stack EXCEPT ![Len(stack)].pc = "iframes"]
                   /\ UNCHANGED <<scrape, cache>>
              ELSE IF stack[Len(stack)].attempt < max_retries - 1
              THEN /\ stack' = next_attempt(stack)
                   /\ UNCHANGED <<scrape, cache>>
              ELSE /\ stack' = returns.stack
                   /\ scrape' = returns.scrape
                   /\ cache' = cache_after(returns.scrape)
    /\ UNCHANGED <<clock, entry, task, threads, catalog_list>>
    /\ UNCHANGED site
    /\ UNCHANGED <<classifierVars, normalizerVars, helperVars, pageVars, requestVars>>

\* _extract_from_iframes: 'await self._scrape_page(client, src)' for the
\* next iframe; the RecursionError of a call nested too deep is caught
\* by the loop
ScrapePageIframe ==
    /\ stack # <<>>
    /\ stack[Len(stack)].pc = "iframes"
    /\ stack[Len(stack)].iframe <= Len(site[stack[Len(stack)].url].iframes)
    /\ stack' = IF Len(stack) < RecursionLimit
                THEN Append(stack,
                            Frame(site[stack[Len(stack)].url].iframes[stack[Len(stack)].iframe]))
                ELSE [stack EXCEPT ![Len(stack)].iframe = @ + 1]
    /\ UNCHANGED <<site, attempts, scrape>>
    /\ UNCHANGED <<classifierVars, normalizerVars, serviceVars, helperVars,
                   pageVars, requestVars>>

\* _scrape_page after the iframe loop: the prayers of the iframes and of
\* the page itself are returned; without any the loop goes to the next
\* attempt, the last attempt returning what the rendered page gives
ScrapePageResult ==
    /\ stack # <<>>
    /\ stack[Len(stack)].pc = "iframes"
    /\ stack[Len(stack)].iframe > Len(site[stack[Len(stack)].url].iframes)
    /\ \E js_prayers \in BOOLEAN :
          LET frame == stack[Len(stack)]
              unique_prayers_found == frame.iframe_prayers \/ site[frame.url].has_prayers
              returns == scrape_page_returns(unique_prayers_found \/ js_prayers)
          IN  IF ~unique_prayers_found /\ frame.attempt < max_retries - 1
              THEN /\ stack' = next_attempt(stack)
                   /\ UNCHANGED <<scrape, cache>>
              ELSE /\ stack' = returns.stack
                   /\ scrape' = returns.scrape
                   /\ cache' = cache_after(returns.scrape)
    /\ UNCHANGED <<clock, entry, task, threads, catalog_list>>
    /\ UNCHANGED <<site, attempts>>
    /\ UNCHANGED <<classifierVars, normalizerVars, helperVars, pageVars, requestVars>>

\* _find_prayer_pages and the start of 'for page_url in prayer_pages[:3]';
\* list(prayer_urls) puts the links of the page in an order of its own
FindPrayerPages ==
    /\ scrape.pc = "find"
    /\ \E answer \in FetchResponses :
       \E prayer_pages \in IF answer = "200"
                           THEN {site[home_url].links, Reverse(site[home_url].links)}
                           ELSE {<<>>} :
          IF prayer_pages = <<>>
          THEN /\ scrape' = [scrape EXCEPT !.pc = "done", !.find_fetches = @ + 1]
               /\ stack' = <<>>
          ELSE /\ scrape' = [scrape EXCEPT !.pc = "pages", !.find_fetches = @ + 1,
                                           !.prayer_pages = prayer_pages,
                                           !.index = 1]
               /\ stack' = <<Frame(prayer_pages[1])>>
    /\ UNCHANGED <<site, attempts>>
    /\ UNCHANGED <<classifierVars, normalizerVars, serviceVars, helperVars,
                   pageVars, requestVars>>

InitFetch ==
    /\ ClassifierIdle
    /\ NormalizerIdle
    /\ HelperIdle
    /\ PageIdle
    /\ RequestIdle
    /\ clock = 0
    /\ entry = MosqueScraper
    /\ task = IdleTask
    /\ cache = {}
    /\ threads = <<>>
    /\ catalog_list = <<>>
    /\ site \in Sites
    /\ stack = <<>>
    /\ attempts = [u \in Urls |-> 0]
    /\ scrape = [pc |-> "idle", prayer_pages |-> <<>>, index |-> 0,
                 find_fetches |-> 0, found |-> FALSE]

NextFetch ==
    \/ FetchStart
    \/ ScrapePageGet
    \/ ScrapePageIframe
    \/ ScrapePageResult
    \/ FindPrayerPages

SpecFetch == InitFetch /\ [][NextFetch]_vars

\* the event loop runs the call whenever it can go on
FairSpecFetch == SpecFetch /\ WF_vars(NextFetch)

(***************************************************************************)
(* C30: MosqueScraper.scrape_mosque_prayers always terminates after a      *)
(* bounded number of fetches: each page is requested by _scrape_page at    *)
(* most max_retries = 3 times and at most 3 discovered prayer pages are    *)
(* tried, also when a page embeds prayer-related iframes and when iframes  *)
(* refer to each other in a cycle.                                         *)
(***************************************************************************)
C30_BoundedFetches ==
    /\ [](\A u \in DOMAIN attempts : attempts[u] <= max_retries)
    /\ [](scrape.index <= page_limit)
    /\ <>(scrape.pc = "done")

====
